---------------------------- MODULE Spec2Model ----------------------------
(***************************************************************************)
(* GST invoicing and godown stock ledger (Next.js route handlers over      *)
(* MySQL).                                                                 *)
(*                                                                         *)
(* Part I  : invoice creation, POST /api/invoices, in its three revisions  *)
(*           (src/unnamed/part_004:134, src/app/api/invoices/route.ts:134, *)
(*           src/unnamed/part_004:421).                                    *)
(* Part II : the stock ledger, POST /api/stock and                         *)
(*           POST /api/stock/movements, one SQL statement per step, with   *)
(*           several requests in flight.                                   *)
(*                                                                         *)
(* Requests are taken to carry a valid bearer token with the permission    *)
(* the handler asks for; the 401/403 exits change no state.                *)
(*                                                                         *)
(* Money.  The handlers compute in JavaScript doubles.  Here quantities,   *)
(* unit prices and GST percentages are integers and every amount is held   *)
(* in units of 1/200 of a rupee, every stored rate in units of 1/2 per     *)
(* cent, so that each quotient the code takes (/100, /200, gst_rate/2) is  *)
(* exact.  Binary rounding of doubles is outside this model.               *)
(***************************************************************************)
EXTENDS Integers, Sequences, FiniteSets, TLC

(***************************************************************************)
(* Bounds                                                                  *)
(***************************************************************************)
MaxItems == 2
MaxInvoiceRequests == 2

(***************************************************************************)
(* Part I.  Invoice creation                                               *)
(***************************************************************************)

\* Values an item of the request body may carry.
Quantities == {10}
Rates == {100}
GstRates == {0, 18}

Item == [quantity : Quantities, rate : Rates, gst_rate : GstRates]

ItemLists == UNION {[1..n -> Item] : n \in 0..MaxItems}

\* master_customer: customer_id -> customer_state_code ("" is NULL/empty).
CustomerIds == {1, 2, 3}
customer_state_code(c) ==
  CASE c = 1 -> "27"
    [] c = 2 -> "19"
    [] OTHER -> ""

\* customer_id values a request may carry; 9 matches no row.
RequestCustomerIds == CustomerIds \cup {9}

StateCodes == {"19", "27"}

Revisions == {"igst", "sequence", "legacy"}

VARIABLES
  revision,             \* which revision of app/api/invoices/route.ts is deployed
  company_state_code,   \* gst_settings row 'company_state_code' ("" = no row)
  tax_invoice,          \* table tax_invoice, index = tax_invoice_id
  tax_invoice_details,  \* table tax_invoice_details
  e_invoice_sequence,   \* current_number of this financial year's row, 0 = no row
  resp,                 \* the last response of POST /api/invoices
  posted                \* POST /api/invoices requests handled so far

invVars == <<revision, company_state_code, tax_invoice, tax_invoice_details,
             e_invoice_sequence, resp, posted>>

\* State of the e-invoice routes (Part III) and of a GSTEInvoiceAPI client
\* (Part IV), declared here so that every route can leave it alone.
VARIABLES
  einv_revision,              \* which revision of .../[id]/einvoice/route.ts is deployed
  edge_crypto,                \* whether the middleware's runtime has crypto.subtle
  e_invoice_transaction_log,  \* table e_invoice_transaction_log, index = log_id
  invoices_cache,             \* whether Redis holds an 'invoices:*' entry
  ereq,                       \* the e-invoice and PUT requests in flight, per slot
  estarted                    \* such requests received so far

einvVars == <<einv_revision, edge_crypto, e_invoice_transaction_log, invoices_cache,
              ereq, estarted>>

VARIABLES
  gst_now,       \* Date.now(), in milliseconds
  accessToken,   \* this.accessToken of the client, 0 = undefined
  tokenExpiry,   \* this.tokenExpiry of the client, 0 = undefined
  gst_issued,    \* POST /auth requests sent so far
  gst_call       \* the last generateEInvoice / cancelEInvoice call on the client

gstVars == <<gst_now, accessToken, tokenExpiry, gst_issued, gst_call>>

\* The 'stock:*' keys of the cache and GET /api/stock (Part V).
VARIABLES
  stock_cache,   \* the entry under the listing's cache key
  greq,          \* the GET /api/stock requests in flight, per slot
  gstarted       \* such requests received so far

cacheVars == <<stock_cache, greq, gstarted>>

\* No entry under the key (RedisCache.get returns null).
NoEntry == [present |-> FALSE, data |-> <<>>]

\* POST /api/invoices requests in flight together (Part VI).
VARIABLES
  creq,          \* the creation requests in flight, per slot
  cstarted       \* such requests received so far

numVars == <<creq, cstarted>>

\* Where DELETE /api/invoices has removed rows: tax_invoice is indexed by
\* tax_invoice_id (AUTO_INCREMENT never reuses an id), so a removed row is an
\* id recorded here; what tax_invoice holds at such an index is no row.
VARIABLES
  deleted_invoices               \* the tax_invoice_id values whose row is gone

delVars == <<deleted_invoices>>

\* Calls of the helpers of src/lib/gst-api.ts.
VARIABLES
  einvoice_payload,              \* the last result of buildEInvoicePayload
  perm_user,                     \* the User object hasPermission is asked about
  perm_check                     \* the last call of hasPermission and its result

libVars == <<einvoice_payload, perm_user, perm_check>>

\* Everything the stock routes never touch.
restVars == <<invVars, einvVars, gstVars, numVars, delVars, libVars>>

\* settings.company_state_code || '27'
sellerStateCode == IF company_state_code = "" THEN "27" ELSE company_state_code

\* customer.customer_state_code || place_of_supply
buyerStateCode(customer_id, place_of_supply) ==
  IF customer_state_code(customer_id) = "" THEN place_of_supply
  ELSE customer_state_code(customer_id)

\* const isInterState = sellerStateCode !== buyerStateCode
isInterState(customer_id, place_of_supply) ==
  sellerStateCode # buyerStateCode(customer_id, place_of_supply)

\* item.quantity * item.rate, in 1/200ths
taxableAmount(item) == item.quantity * item.rate * 200

RECURSIVE SumOver(_, _)
SumOver(s, field) ==
  IF s = <<>> THEN 0 ELSE s[1][field] + SumOver(Tail(s), field)

(* ---- the totals loop and the details loop of each revision ---- *)

\* part_004:201-219, items.forEach: one item's contribution to the grand totals.
TotalsLineIgst(item, inter) ==
  LET taxable == taxableAmount(item)
      igstAmt == IF inter THEN (taxable * item.gst_rate) \div 100 ELSE 0
      cgstAmt == IF inter THEN 0 ELSE (taxable * item.gst_rate) \div 200
      sgstAmt == IF inter THEN 0 ELSE (taxable * item.gst_rate) \div 200
  IN [taxable_amt |-> taxable, cgst_amt |-> cgstAmt, sgst_amt |-> sgstAmt,
      igst_amount |-> igstAmt,
      total_amount |-> taxable + cgstAmt + sgstAmt + igstAmt]

\* part_004:260-290: the detail row of one item (rates in 1/2 per cent).
DetailLineIgst(item, inter) ==
  LET taxable == taxableAmount(item)
      igstRate == IF inter THEN 2 * item.gst_rate ELSE 0
      cgstRate == IF inter THEN 0 ELSE item.gst_rate
      sgstRate == IF inter THEN 0 ELSE item.gst_rate
      igstAmt == (taxable * igstRate) \div 200
      cgstAmt == (taxable * cgstRate) \div 200
      sgstAmt == (taxable * sgstRate) \div 200
  IN [taxable_amt |-> taxable, cgst_rate |-> cgstRate, cgst_amt |-> cgstAmt,
      sgst_rate |-> sgstRate, sgst_amt |-> sgstAmt,
      igst_rate |-> igstRate, igst_amount |-> igstAmt,
      total_amount |-> taxable + cgstAmt + sgstAmt + igstAmt]

\* Mutant of TotalsLineSequence: the line total leaves the SGST out.
TotalsLineSequence_NoSgst(item, inter) ==
  LET taxable == taxableAmount(item)
      cgstAmt == IF ~inter THEN (taxable * item.gst_rate) \div 200 ELSE 0
      sgstAmt == IF ~inter THEN (taxable * item.gst_rate) \div 200 ELSE 0
  IN [taxable_amt |-> taxable, cgst_amt |-> cgstAmt, sgst_amt |-> sgstAmt,
      igst_amount |-> 0,
      total_amount |-> taxable + cgstAmt]

\* route.ts:225-240: no IGST is computed; an interstate line carries no tax.
TotalsLineSequence(item, inter) ==
  LET taxable == taxableAmount(item)
      cgstAmt == IF ~inter THEN (taxable * item.gst_rate) \div 200 ELSE 0
      sgstAmt == IF ~inter THEN (taxable * item.gst_rate) \div 200 ELSE 0
  IN [taxable_amt |-> taxable, cgst_amt |-> cgstAmt, sgst_amt |-> sgstAmt,
      igst_amount |-> 0,
      total_amount |-> taxable + cgstAmt + sgstAmt]

\* route.ts:261-287: the igst columns are not written (left at their default).
DetailLineSequence(item, inter) ==
  LET taxable == taxableAmount(item)
      cgstRate == IF ~inter THEN item.gst_rate ELSE 0
      sgstRate == IF ~inter THEN item.gst_rate ELSE 0
      cgstAmt == (taxable * cgstRate) \div 200
      sgstAmt == (taxable * sgstRate) \div 200
  IN [taxable_amt |-> taxable, cgst_rate |-> cgstRate, cgst_amt |-> cgstAmt,
      sgst_rate |-> sgstRate, sgst_amt |-> sgstAmt,
      igst_rate |-> 0, igst_amount |-> 0,
      total_amount |-> taxable + cgstAmt + sgstAmt]

\* part_004:459-469: always CGST + SGST, the states are never looked at.
TotalsLineLegacy(item) ==
  LET taxable == taxableAmount(item)
      cgstAmt == (taxable * item.gst_rate) \div 200
      sgstAmt == (taxable * item.gst_rate) \div 200
  IN [taxable_amt |-> taxable, cgst_amt |-> cgstAmt, sgst_amt |-> sgstAmt,
      igst_amount |-> 0,
      total_amount |-> taxable + cgstAmt + sgstAmt]

\* part_004:494-511
DetailLineLegacy(item) ==
  LET taxable == taxableAmount(item)
      cgstRate == item.gst_rate
      sgstRate == item.gst_rate
      cgstAmt == (taxable * cgstRate) \div 200
      sgstAmt == (taxable * sgstRate) \div 200
  IN [taxable_amt |-> taxable, cgst_rate |-> cgstRate, cgst_amt |-> cgstAmt,
      sgst_rate |-> sgstRate, sgst_amt |-> sgstAmt,
      igst_rate |-> 0, igst_amount |-> 0,
      total_amount |-> taxable + cgstAmt + sgstAmt]

\* The accumulators grandTotal... += ..., over the lines of the totals loop.
GrandTotals(lines) ==
  [grand_total_taxable_amt |-> SumOver(lines, "taxable_amt"),
   grand_total_cgst_amt |-> SumOver(lines, "cgst_amt"),
   grand_total_sgst_amt |-> SumOver(lines, "sgst_amt"),
   grand_total_igst_amt |-> SumOver(lines, "igst_amount"),
   grand_total_amt |-> SumOver(lines, "total_amount")]

\* One INSERT INTO tax_invoice.
HeaderRow(customer_id, invoice_no, place_of_supply, totals) ==
  [customer_id |-> customer_id, invoice_no |-> invoice_no,
   place_supply |-> place_of_supply, status |-> "draft",
   grand_total_taxable_amt |-> totals.grand_total_taxable_amt,
   grand_total_cgst_amt |-> totals.grand_total_cgst_amt,
   grand_total_sgst_amt |-> totals.grand_total_sgst_amt,
   grand_total_igst_amt |-> totals.grand_total_igst_amt,
   grand_total_amt |-> totals.grand_total_amt,
   tax_invoice_id |-> Len(tax_invoice) + 1]

\* One INSERT INTO tax_invoice_details.  gst_rate is the request's item.gst_rate,
\* kept beside the row; it is no column of the table.
DetailRow(invoiceId, i, item, line) ==
  [tax_invoice_id |-> invoiceId, item_serial_number |-> i,
   qty |-> item.quantity, rate |-> item.rate, gst_rate |-> item.gst_rate,
   taxable_amt |-> line.taxable_amt,
   cgst_rate |-> line.cgst_rate, cgst_amt |-> line.cgst_amt,
   sgst_rate |-> line.sgst_rate, sgst_amt |-> line.sgst_amt,
   igst_rate |-> line.igst_rate, igst_amount |-> line.igst_amount,
   total_amount |-> line.total_amount]

NoTotals == [grand_total_taxable_amt |-> 0, grand_total_cgst_amt |-> 0,
             grand_total_sgst_amt |-> 0, grand_total_igst_amt |-> 0,
             grand_total_amt |-> 0]

Response(status, error, invoice_id, totals) ==
  [status |-> status, error |-> error, invoice_id |-> invoice_id,
   totals |-> totals]

\* if (!customer_id || !invoice_date || !items || items.length === 0)
MissingRequiredFields(customer_id, has_date, items) ==
  customer_id = 0 \/ ~has_date \/ Len(items) = 0

\* The rows the details loop inserts, in order.
DetailRowsIgst(invoiceId, items, inter) ==
  [i \in 1..Len(items) |->
     DetailRow(invoiceId, i, items[i], DetailLineIgst(items[i], inter))]

DetailRowsSequence(invoiceId, items, inter) ==
  [i \in 1..Len(items) |->
     DetailRow(invoiceId, i, items[i], DetailLineSequence(items[i], inter))]

\* This revision writes no item_serial_number.
DetailRowsLegacy(invoiceId, items) ==
  [i \in 1..Len(items) |->
     DetailRow(invoiceId, 0, items[i], DetailLineLegacy(items[i]))]

\* The header insert followed by the detail inserts, of which the first
\* `done` statements complete; the next one throws (any statement may: the
\* pool, the server, a constraint).  Nothing undoes the completed ones: the
\* header goes through Database.transaction alone or Database.insert, and
\* each detail row through Database.insert.
Persist(header, rows, done) ==
  /\ tax_invoice' = IF done >= 1 THEN Append(tax_invoice, header) ELSE tax_invoice
  /\ tax_invoice_details' =
       IF done >= 2 THEN tax_invoice_details \o SubSeq(rows, 1, done - 1)
       ELSE tax_invoice_details

InternalError == Response(500, "Internal server error", 0, NoTotals)

\* POST /api/invoices, src/unnamed/part_004:134-319 (IGST revision).
\* The INSERT INTO tax_invoice_details of this revision names total_amount twice.
PostInvoiceIgst(customer_id, has_date, place_of_supply, items) ==
  LET inter == isInterState(customer_id, place_of_supply)
      totals == GrandTotals([i \in 1..Len(items) |-> TotalsLineIgst(items[i], inter)])
      invoiceId == Len(tax_invoice) + 1
      header == HeaderRow(customer_id, 0, place_of_supply, totals)
      rows == DetailRowsIgst(invoiceId, items, inter)
  IN /\ revision = "igst"
     /\ UNCHANGED <<revision, company_state_code, e_invoice_sequence>>
     /\ IF MissingRequiredFields(customer_id, has_date, items)
        THEN /\ resp' = Response(400, "Missing required fields", 0, NoTotals)
             /\ UNCHANGED <<tax_invoice, tax_invoice_details>>
        ELSE IF customer_id \notin CustomerIds
        THEN /\ resp' = Response(404, "Customer not found", 0, NoTotals)
             /\ UNCHANGED <<tax_invoice, tax_invoice_details>>
        ELSE \E done \in 0..(1 + Len(items)) :
             /\ Persist(header, rows, done)
             /\ resp' = IF done = 1 + Len(items)
                        THEN Response(201, "", invoiceId, totals)
                        ELSE InternalError

\* route.ts:189-212: the invoice number from e_invoice_sequence; `done` counts
\* the completed writes, the sequence's own first.
SeqWrites == IF e_invoice_sequence = 0 THEN 2 ELSE 1

SequenceNumber == IF e_invoice_sequence = 0 THEN 1 ELSE e_invoice_sequence

SequenceAfter(done) ==
  IF e_invoice_sequence = 0
  THEN (IF done = 0 THEN 0 ELSE IF done = 1 THEN 1 ELSE 2)
  ELSE (IF done = 0 THEN e_invoice_sequence ELSE e_invoice_sequence + 1)

\* POST /api/invoices, src/app/api/invoices/route.ts:134-310 (sequence revision).
PostInvoiceSequence(customer_id, has_date, place_of_supply, items) ==
  LET inter == isInterState(customer_id, place_of_supply)
      totals == GrandTotals([i \in 1..Len(items) |-> TotalsLineSequence(items[i], inter)])
      invoiceId == Len(tax_invoice) + 1
      header == HeaderRow(customer_id, SequenceNumber, place_of_supply, totals)
      rows == DetailRowsSequence(invoiceId, items, inter)
  IN /\ revision = "sequence"
     /\ UNCHANGED <<revision, company_state_code>>
     /\ IF MissingRequiredFields(customer_id, has_date, items)
        THEN /\ resp' = Response(400, "Missing required fields", 0, NoTotals)
             /\ UNCHANGED <<tax_invoice, tax_invoice_details, e_invoice_sequence>>
        ELSE IF customer_id \notin CustomerIds
        THEN /\ resp' = Response(404, "Customer not found", 0, NoTotals)
             /\ UNCHANGED <<tax_invoice, tax_invoice_details, e_invoice_sequence>>
        ELSE \E done \in 0..(SeqWrites + 1 + Len(items)) :
             /\ e_invoice_sequence' = SequenceAfter(done)
             /\ Persist(header, rows, IF done > SeqWrites THEN done - SeqWrites ELSE 0)
             /\ resp' = IF done = SeqWrites + 1 + Len(items)
                        THEN Response(201, "", invoiceId, totals)
                        ELSE InternalError

\* part_004:441-451: last invoice_no + 1, or 1.
LegacyNumber ==
  IF tax_invoice # <<>> /\ tax_invoice[Len(tax_invoice)].invoice_no # 0
  THEN tax_invoice[Len(tax_invoice)].invoice_no + 1
  ELSE 1

\* POST /api/invoices, src/unnamed/part_004:421-529 (legacy revision): no
\* customer lookup, no state determination.
PostInvoiceLegacy(customer_id, has_date, place_of_supply, items) ==
  LET totals == GrandTotals([i \in 1..Len(items) |-> TotalsLineLegacy(items[i])])
      invoiceId == Len(tax_invoice) + 1
      header == HeaderRow(customer_id, LegacyNumber, place_of_supply, totals)
      rows == DetailRowsLegacy(invoiceId, items)
  IN /\ revision = "legacy"
     /\ UNCHANGED <<revision, company_state_code, e_invoice_sequence>>
     /\ IF MissingRequiredFields(customer_id, has_date, items)
        THEN /\ resp' = Response(400, "Missing required fields", 0, NoTotals)
             /\ UNCHANGED <<tax_invoice, tax_invoice_details>>
        ELSE \E done \in 0..(1 + Len(items)) :
             /\ Persist(header, rows, done)
             /\ resp' = IF done = 1 + Len(items)
                        THEN Response(201, "", invoiceId, NoTotals)
                        ELSE InternalError

NoResponse == Response(0, "", 0, NoTotals)

InvoiceRequestFields ==
  [customer_id : RequestCustomerIds \cup {0}, invoice_date : BOOLEAN,
   place_of_supply : StateCodes, items : ItemLists]

(***************************************************************************)
(* Part II.  The stock ledger                                              *)
(*                                                                         *)
(* POST /api/stock (src/app/api/stock/route.ts:137-261) and                *)
(* POST /api/stock/movements (src/app/api/stock/movements/route.ts:162-    *)
(* 301).  Every awaited SQL statement is one step of its request; requests *)
(* in flight interleave between steps (no transaction, no lock).           *)
(***************************************************************************)
MaxInFlight == 2
MaxStockRequests == 3
MaxQty == 2

Slots == 1..MaxInFlight

\* master_godown and master_raw_material rows.
Godowns == {1, 2}
Materials == {1}

\* quantity values an accepted request may carry (JSON numbers).
Qtys == 1..MaxQty

\* Bodies of POST /api/stock: every operation on every master pair with every
\* quantity, and one body for each way the handler refuses before it reads
\* the ledger (quantity 0, negative quantity, godown 3 and material 9, which
\* match no master row).
StockBodies ==
  [godown_id : Godowns, raw_material_id : Materials, quantity : Qtys,
   operation : {"add", "subtract", "set"}]
  \cup {[godown_id |-> 1, raw_material_id |-> 1, quantity |-> q, operation |-> "add"] :
          q \in {0, -1}}
  \cup {[godown_id |-> 3, raw_material_id |-> 1, quantity |-> 1, operation |-> "subtract"],
        [godown_id |-> 1, raw_material_id |-> 9, quantity |-> 1, operation |-> "subtract"]}

\* A godown id as it arrives in the JSON body of a movement: a number, a
\* string of digits, or absent.
Null == [t |-> "null", v |-> 0]
JsonIds == {[t |-> ty, v |-> g] : ty \in {"number", "string"}, g \in Godowns}

Num(g) == [t |-> "number", v |-> g]

\* from_godown_id === to_godown_id: strict equality, no conversion.
StrictEqual(a, b) == a.t = b.t /\ a.v = b.v

\* !x for a godown id of the body
Falsy(x) == x = Null

VARIABLES
  godown_stock,                  \* table godown_stock, index = godown_stock_id
  raw_material_stockout,         \* table raw_material_stockout, index = stockout_id
  raw_material_stockout_details, \* table raw_material_stockout_details
  req,                           \* the requests in flight, per slot
  started                        \* stock requests received so far

stockVars == <<godown_stock, raw_material_stockout, raw_material_stockout_details,
               req, started>>

StockRow(g, m, q) == [godown_id |-> g, raw_material_id |-> m, quantity |-> q]

\* WHERE godown_id = ? AND raw_material_id = ?  (the ids of the matching rows)
Matching(g, m) ==
  {i \in 1..Len(godown_stock) :
     godown_stock[i].godown_id = g /\ godown_stock[i].raw_material_id = m}

\* What the tables held when a request arrived (kept to state its effect).
Snapshot == [stock |-> godown_stock,
             stockouts |-> Len(raw_material_stockout),
             details |-> Len(raw_material_stockout_details)]

NoSnapshot == [stock |-> <<>>, stockouts |-> 0, details |-> 0]

Idle ==
  [pc |-> "idle", route |-> "", op |-> "", godown_id |-> 0,
   from_godown_id |-> Null, to_godown_id |-> Null, raw_material_id |-> 0,
   quantity |-> 0, found |-> 0, read_quantity |-> 0, new_quantity |-> 0,
   stockout_id |-> 0, status |-> 0, error |-> "", at |-> "", snap |-> NoSnapshot,
   alone |-> TRUE]

\* A request ends at the statement it had reached: the response leaves.
Done(r, status, error) ==
  [req[r] EXCEPT !.pc = "done", !.status = status, !.error = error, !.at = req[r].pc]

\* Another request's write lands while r is in flight: r no longer ran alone,
\* and what the tables held at its arrival says nothing about its effect.
Disturbed(rq, writer) ==
  [s \in Slots |->
     IF s # writer /\ rq[s].pc \notin {"idle", "done"}
     THEN [rq[s] EXCEPT !.alone = FALSE, !.snap = NoSnapshot] ELSE rq[s]]

\* "done" shows a finished request with its response; the response is handed
\* over (Return) before any request takes its next step.
Delivered == \A s \in Slots : req[s].pc # "done"

\* A request is taken by the lowest free slot.
Accept(r) ==
  /\ Delivered
  /\ req[r].pc = "idle"
  /\ \A s \in Slots : s < r => req[s].pc # "idle"
  /\ started < MaxStockRequests
  /\ started' = started + 1

Arrived(r, route, op, g, from, to, m, q) ==
  [Idle EXCEPT !.pc = "arrived", !.route = route, !.op = op, !.godown_id = g,
               !.from_godown_id = from, !.to_godown_id = to,
               !.raw_material_id = m, !.quantity = q, !.snap = Snapshot]

(* ---- POST /api/stock, route.ts:137-261 ---- *)

\* route.ts:149-172: the body's validation and the two master lookups.
StartStock(r, godown_id, raw_material_id, quantity, operation) ==
  LET a == Arrived(r, "stock", operation, godown_id, Null, Null, raw_material_id, quantity)
  IN /\ Accept(r)
     /\ req' = [req EXCEPT ![r] =
          IF quantity = 0
          THEN [a EXCEPT !.pc = "done", !.status = 400, !.error = "Missing required fields"]
          ELSE IF quantity <= 0
          THEN [a EXCEPT !.pc = "done", !.status = 400,
                         !.error = "Quantity must be greater than 0"]
          ELSE IF godown_id \notin Godowns
          THEN [a EXCEPT !.pc = "done", !.status = 404, !.error = "Godown not found"]
          ELSE IF raw_material_id \notin Materials
          THEN [a EXCEPT !.pc = "done", !.status = 404, !.error = "Raw material not found"]
          ELSE [a EXCEPT !.pc = "select"]]
     /\ UNCHANGED <<restVars, cacheVars, godown_stock, raw_material_stockout,
                    raw_material_stockout_details>>

\* route.ts:183-196: newQuantity for an existing row.
NewQuantity_Set(operation, currentQuantity, q) == q

NewQuantity(operation, currentQuantity, q) ==
  CASE operation = "add" -> currentQuantity + q
    [] operation = "subtract" -> currentQuantity - q
    [] OTHER -> q

\* route.ts:187-192: the subtract that would go below zero.
Insufficient_Never(operation, newQuantity) == FALSE

Insufficient(operation, newQuantity) == operation = "subtract" /\ newQuantity < 0

\* route.ts:175-196 and 206-208: SELECT the existing row, compute newQuantity.
\* `id` is the row queryFirst returns (0: none).
SelectExisting(r, id) ==
  LET q == req[r].quantity
      M == Matching(req[r].godown_id, req[r].raw_material_id)
      currentQuantity == IF id = 0 THEN 0 ELSE godown_stock[id].quantity
      newQuantity == NewQuantity(req[r].op, currentQuantity, q)
      read == [req[r] EXCEPT !.found = id, !.read_quantity = currentQuantity]
  IN /\ Delivered /\ req[r].pc = "select"
     /\ IF M = {} THEN id = 0 ELSE id \in M
     /\ req' = [req EXCEPT ![r] =
          IF id # 0
          THEN IF Insufficient(req[r].op, newQuantity)
               THEN [read EXCEPT !.pc = "done", !.status = 400, !.error = "Insufficient stock"]
               ELSE [read EXCEPT !.pc = "write", !.new_quantity = newQuantity]
          ELSE IF req[r].op = "subtract"
               THEN [read EXCEPT !.pc = "done", !.status = 400,
                                 !.error = "Cannot subtract from non-existent stock"]
               ELSE [read EXCEPT !.pc = "write", !.new_quantity = q]]
     /\ UNCHANGED <<restVars, cacheVars, godown_stock, raw_material_stockout,
                    raw_material_stockout_details, started>>

\* The UPDATE written as "SET quantity = quantity + (newQuantity - value read)".
WriteStock_Relative(r) ==
  /\ Delivered /\ req[r].pc = "write"
  /\ godown_stock' =
       IF req[r].found # 0
       THEN [godown_stock EXCEPT ![req[r].found].quantity =
               @ + req[r].new_quantity - req[r].read_quantity]
       ELSE Append(godown_stock,
                   StockRow(req[r].godown_id, req[r].raw_material_id, req[r].new_quantity))
  /\ req' = [Disturbed(req, r) EXCEPT ![r].pc = "respond",
                                       ![r].found = IF req[r].found # 0 THEN req[r].found
                                                    ELSE Len(godown_stock) + 1]
  /\ UNCHANGED <<restVars, cacheVars, raw_material_stockout, raw_material_stockout_details, started>>

\* route.ts:198-201 UPDATE ... WHERE godown_stock_id = ?, or 210-213 INSERT.
WriteStock(r) ==
  /\ Delivered /\ req[r].pc = "write"
  /\ godown_stock' =
       IF req[r].found # 0
       THEN [godown_stock EXCEPT ![req[r].found].quantity = req[r].new_quantity]
       ELSE Append(godown_stock,
                   StockRow(req[r].godown_id, req[r].raw_material_id, req[r].new_quantity))
  /\ req' = [Disturbed(req, r) EXCEPT ![r].pc = "respond",
                                       ![r].found = IF req[r].found # 0 THEN req[r].found
                                                    ELSE Len(godown_stock) + 1]
  /\ UNCHANGED <<restVars, cacheVars, raw_material_stockout, raw_material_stockout_details, started>>

(* ---- POST /api/stock/movements, movements/route.ts:162-301 ---- *)

\* Bodies of POST /api/stock/movements.  A transfer names the same godown
\* twice in every pair of representations, two different godowns as numbers,
\* or leaves one out; an adjustment or damage names its godown as
\* from_godown_id or as to_godown_id, or not at all, with quantity 1.
TransferBodies ==
  LET pairs == {p \in JsonIds \X JsonIds : p[1].v = p[2].v}
               \cup {<<Num(a), Num(b)>> : a \in Godowns, b \in Godowns}
               \cup {<<Null, Num(1)>>, <<Num(1), Null>>}
  IN {[movement_type |-> "transfer", raw_material_id |-> m,
       from_godown_id |-> p[1], to_godown_id |-> p[2], quantity |-> q] :
        p \in pairs, m \in Materials, q \in Qtys}

AdjustBodies ==
  LET pairs == {<<Num(g), Null>> : g \in Godowns} \cup {<<Null, Num(2)>>, <<Null, Null>>}
  IN {[movement_type |-> ty, raw_material_id |-> m,
       from_godown_id |-> p[1], to_godown_id |-> p[2], quantity |-> q] :
        ty \in {"adjustment", "damage"}, p \in pairs, m \in Materials, q \in {1}}

MovementBodies ==
  TransferBodies \cup AdjustBodies
  \cup {[movement_type |-> "transfer", raw_material_id |-> 1,
         from_godown_id |-> Num(1), to_godown_id |-> Num(2), quantity |-> q] :
          q \in {0, -1}}

\* movements/route.ts:174-200 and 249-253: the body's validation.
StartMovement(r, movement_type, raw_material_id, from_godown_id, to_godown_id, quantity) ==
  LET godown == IF Falsy(from_godown_id) THEN to_godown_id ELSE from_godown_id
      a == IF movement_type = "transfer"
           THEN Arrived(r, "movements", movement_type, 0, from_godown_id,
                        to_godown_id, raw_material_id, quantity)
           ELSE Arrived(r, "movements", movement_type, godown.v, Null, Null,
                        raw_material_id, quantity)
  IN /\ Accept(r)
     /\ req' = [req EXCEPT ![r] =
          IF quantity = 0
          THEN [a EXCEPT !.pc = "done", !.status = 400, !.error = "Missing required fields"]
          ELSE IF quantity <= 0
          THEN [a EXCEPT !.pc = "done", !.status = 400,
                         !.error = "Quantity must be greater than 0"]
          ELSE IF movement_type = "transfer"
          THEN IF Falsy(from_godown_id) \/ Falsy(to_godown_id)
               THEN [a EXCEPT !.pc = "done", !.status = 400,
                       !.error = "Both source and destination godowns required for transfer"]
               ELSE IF StrictEqual(from_godown_id, to_godown_id)
               THEN [a EXCEPT !.pc = "done", !.status = 400,
                       !.error = "Source and destination godowns cannot be the same"]
               ELSE [a EXCEPT !.pc = "t_check"]
          ELSE IF Falsy(godown)
               THEN [a EXCEPT !.pc = "done", !.status = 400, !.error = "Godown ID is required"]
               ELSE [a EXCEPT !.pc = "a_select"]]
     /\ UNCHANGED <<restVars, cacheVars, godown_stock, raw_material_stockout,
                    raw_material_stockout_details>>

\* movements/route.ts:203-210: the availability check on the source godown.
TransferCheck(r, id) ==
  LET M == Matching(req[r].from_godown_id.v, req[r].raw_material_id)
      read == [req[r] EXCEPT !.found = id,
                 !.read_quantity = IF id = 0 THEN 0 ELSE godown_stock[id].quantity]
  IN /\ Delivered /\ req[r].pc = "t_check"
     /\ IF M = {} THEN id = 0 ELSE id \in M
     /\ req' = [req EXCEPT ![r] =
          IF id = 0 \/ read.read_quantity < req[r].quantity
          THEN [read EXCEPT !.pc = "done", !.status = 400,
                            !.error = "Insufficient stock in source godown"]
          ELSE [read EXCEPT !.pc = "t_dec"]]
     /\ UNCHANGED <<restVars, cacheVars, godown_stock, raw_material_stockout,
                    raw_material_stockout_details, started>>

\* The same UPDATE with "AND quantity + delta >= 0" added to its WHERE.
UpdateRelative_Guarded(g, m, delta) ==
  [i \in 1..Len(godown_stock) |->
     IF i \in Matching(g, m) /\ godown_stock[i].quantity + delta >= 0
     THEN [godown_stock[i] EXCEPT !.quantity = @ + delta] ELSE godown_stock[i]]

\* UPDATE godown_stock SET quantity = quantity + delta
\* WHERE godown_id = ? AND raw_material_id = ?   (every matching row)
UpdateRelative(g, m, delta) ==
  [i \in 1..Len(godown_stock) |->
     IF i \in Matching(g, m)
     THEN [godown_stock[i] EXCEPT !.quantity = @ + delta] ELSE godown_stock[i]]

\* UPDATE godown_stock SET quantity = ? WHERE godown_id = ? AND raw_material_id = ?
UpdateAbsolute(g, m, q) ==
  [i \in 1..Len(godown_stock) |->
     IF i \in Matching(g, m)
     THEN [godown_stock[i] EXCEPT !.quantity = q] ELSE godown_stock[i]]

\* movements/route.ts:213-217: reduce the source, whatever it holds by now.
TransferDecrement(r) ==
  /\ Delivered /\ req[r].pc = "t_dec"
  /\ godown_stock' = UpdateRelative(req[r].from_godown_id.v, req[r].raw_material_id,
                                    -req[r].quantity)
  /\ req' = [Disturbed(req, r) EXCEPT ![r].pc = "t_dest", ![r].found = 0]
  /\ UNCHANGED <<restVars, cacheVars, raw_material_stockout, raw_material_stockout_details, started>>

\* movements/route.ts:220-223: SELECT the destination row.
TransferDestSelect(r, id) ==
  LET M == Matching(req[r].to_godown_id.v, req[r].raw_material_id)
  IN /\ Delivered /\ req[r].pc = "t_dest"
     /\ IF M = {} THEN id = 0 ELSE id \in M
     /\ req' = [req EXCEPT ![r].pc = "t_add", ![r].found = id]
     /\ UNCHANGED <<restVars, cacheVars, godown_stock, raw_material_stockout,
                    raw_material_stockout_details, started>>

\* movements/route.ts:225-236: UPDATE the destination, or INSERT it.
TransferAdd(r) ==
  /\ Delivered /\ req[r].pc = "t_add"
  /\ godown_stock' =
       IF req[r].found # 0
       THEN UpdateRelative(req[r].to_godown_id.v, req[r].raw_material_id, req[r].quantity)
       ELSE Append(godown_stock, StockRow(req[r].to_godown_id.v, req[r].raw_material_id,
                                          req[r].quantity))
  /\ req' = [Disturbed(req, r) EXCEPT ![r].pc = "t_out"]
  /\ UNCHANGED <<restVars, cacheVars, raw_material_stockout, raw_material_stockout_details, started>>

\* movements/route.ts:239-242: the stock-out header, against the source godown.
TransferStockout(r) ==
  /\ Delivered /\ req[r].pc = "t_out"
  /\ raw_material_stockout' =
       Append(raw_material_stockout, [godown_id |-> req[r].from_godown_id.v])
  /\ req' = [Disturbed(req, r) EXCEPT ![r].pc = "t_det",
                                       ![r].stockout_id = Len(raw_material_stockout) + 1]
  /\ UNCHANGED <<restVars, cacheVars, godown_stock, raw_material_stockout_details, started>>

\* movements/route.ts:244-247: the stock-out detail.
TransferDetail(r) ==
  /\ Delivered /\ req[r].pc = "t_det"
  /\ raw_material_stockout_details' =
       Append(raw_material_stockout_details,
              [stockout_id |-> req[r].stockout_id,
               raw_material_id |-> req[r].raw_material_id,
               raw_material_quantity |-> req[r].quantity])
  /\ req' = [Disturbed(req, r) EXCEPT ![r].pc = "respond"]
  /\ UNCHANGED <<restVars, cacheVars, godown_stock, raw_material_stockout, started>>

\* movements/route.ts:256-265 and 272-274: adjustment / damage, the read.
AdjustSelect(r, id) ==
  LET M == Matching(req[r].godown_id, req[r].raw_material_id)
      q == req[r].quantity
      current == IF id = 0 THEN 0 ELSE godown_stock[id].quantity
      newQuantity == current + (IF req[r].op = "damage" THEN -q ELSE q)
      read == [req[r] EXCEPT !.found = id, !.read_quantity = current]
  IN /\ Delivered /\ req[r].pc = "a_select"
     /\ IF M = {} THEN id = 0 ELSE id \in M
     /\ req' = [req EXCEPT ![r] =
          IF id # 0
          THEN IF newQuantity < 0
               THEN [read EXCEPT !.pc = "done", !.status = 400,
                                 !.error = "Adjustment would result in negative stock"]
               ELSE [read EXCEPT !.pc = "a_write", !.new_quantity = newQuantity]
          ELSE IF req[r].op = "damage"
               THEN [read EXCEPT !.pc = "done", !.status = 400,
                                 !.error = "Cannot reduce stock for non-existent item"]
               ELSE [read EXCEPT !.pc = "a_write", !.new_quantity = q]]
     /\ UNCHANGED <<restVars, cacheVars, godown_stock, raw_material_stockout,
                    raw_material_stockout_details, started>>

\* movements/route.ts:267-270 UPDATE ... SET quantity = ?, or 276-279 INSERT.
AdjustWrite(r) ==
  /\ Delivered /\ req[r].pc = "a_write"
  /\ godown_stock' =
       IF req[r].found # 0
       THEN UpdateAbsolute(req[r].godown_id, req[r].raw_material_id, req[r].new_quantity)
       ELSE Append(godown_stock,
                   StockRow(req[r].godown_id, req[r].raw_material_id, req[r].new_quantity))
  /\ req' = [Disturbed(req, r) EXCEPT ![r].pc = "respond"]
  /\ UNCHANGED <<restVars, cacheVars, raw_material_stockout, raw_material_stockout_details, started>>

\* route.ts:217-256 / movements 283-296: the closing SELECT, the cache
\* deletion, the response.
Respond(r) ==
  /\ Delivered /\ req[r].pc = "respond"
  /\ req' = [req EXCEPT ![r] = Done(r, IF req[r].route = "stock" THEN 201 ELSE 200, "")]
  /\ stock_cache' = NoEntry
  /\ UNCHANGED <<restVars, greq, gstarted, godown_stock, raw_material_stockout,
                 raw_material_stockout_details, started>>

\* A catch that puts the ledger back as the request found it.
Fail_RollsBack(r) ==
  /\ Delivered /\ req[r].pc # "idle"
  /\ req' = [req EXCEPT ![r] = Done(r, 500, "Internal server error")]
  /\ godown_stock' = IF req[r].alone THEN req[r].snap.stock ELSE godown_stock
  /\ UNCHANGED <<restVars, cacheVars, raw_material_stockout, raw_material_stockout_details, started>>

\* catch (error): an awaited statement throws; 500, nothing is undone.
Fail(r) ==
  /\ Delivered /\ req[r].pc # "idle"
  /\ req' = [req EXCEPT ![r] = Done(r, 500, "Internal server error")]
  /\ UNCHANGED <<restVars, cacheVars, godown_stock, raw_material_stockout,
                 raw_material_stockout_details, started>>

\* The slot is free again.
Return(r) ==
  /\ req[r].pc = "done"
  /\ req' = [req EXCEPT ![r] = Idle]
  /\ UNCHANGED <<restVars, cacheVars, godown_stock, raw_material_stockout,
                 raw_material_stockout_details, started>>

NextStock ==
  \/ \E r \in Slots, b \in StockBodies :
       StartStock(r, b.godown_id, b.raw_material_id, b.quantity, b.operation)
  \/ \E r \in Slots, id \in 0..Len(godown_stock) : SelectExisting(r, id)
  \/ \E r \in Slots : WriteStock(r)
  \/ \E r \in Slots, b \in MovementBodies :
       StartMovement(r, b.movement_type, b.raw_material_id, b.from_godown_id,
                     b.to_godown_id, b.quantity)
  \/ \E r \in Slots, id \in 0..Len(godown_stock) : TransferCheck(r, id)
  \/ \E r \in Slots : TransferDecrement(r)
  \/ \E r \in Slots, id \in 0..Len(godown_stock) : TransferDestSelect(r, id)
  \/ \E r \in Slots : TransferAdd(r)
  \/ \E r \in Slots : TransferStockout(r)
  \/ \E r \in Slots : TransferDetail(r)
  \/ \E r \in Slots, id \in 0..Len(godown_stock) : AdjustSelect(r, id)
  \/ \E r \in Slots : AdjustWrite(r)
  \/ \E r \in Slots : Respond(r)
  \/ \E r \in Slots : Fail(r)
  \/ \E r \in Slots : Return(r)

(***************************************************************************)
(* Part III.  The e-invoice routes                                         *)
(*                                                                         *)
(* POST and DELETE /api/invoices/[id]/einvoice (src/unnamed/part_002:13-   *)
(* 405; the revision without the threshold is src/app/api/invoices/[id]/   *)
(* einvoice/route.ts:11-52) and PUT /api/invoices (src/app/api/invoices/   *)
(* route.ts:313-377), behind src/middleware.ts.  A request is one step up  *)
(* to its call of the GST API and one step from the API's answer on.  Of   *)
(* the database statements only the UPDATE of tax_invoice after an         *)
(* accepted submission may fail here, and gst_settings holds every         *)
(* required key with the API enabled (part_002:86-124).                    *)
(***************************************************************************)
MaxEInvoiceRequests == 3

EInvoiceRevisions == {"threshold", "plain"}

\* part_002:58: invoiceAmount < 50000 (rupees).
EInvoiceThreshold == 50000

\* What the Authorization header carries: nothing (or no "Bearer " prefix), a
\* string that is no JWT, an expired JWT, a valid JWT of a user without the
\* SALES permission asked for, a valid JWT of a user with it.
TokenKinds == {"none", "garbage", "expired", "noperm", "ok"}

\* verifyToken as the middleware runs it (gst-api.ts:474-511): jwt.verify, or
\* jwt.decode without verification where crypto.subtle is missing.
MiddlewareVerifies(token) ==
  IF edge_crypto THEN token \in {"noperm", "ok"}
  ELSE token \in {"expired", "noperm", "ok"}

\* middleware.ts:20-31: the status the middleware answers, 0 = passed on.
Middleware(token) ==
  IF token = "none" THEN 401
  ELSE IF ~MiddlewareVerifies(token) THEN 401
  ELSE 0

\* verifyToken as a handler runs it (runtime 'nodejs'): jwt.verify.
HandlerVerifies(token) == token \in {"noperm", "ok"}

\* hasPermission(user, 'SALES', action) for the user of the token.
hasPermission(token) == token = "ok"

\* The head of every handler (part_002:18-26): 401 without a token, 403 when
\* verifyToken returns null or hasPermission is false; 0 = goes on.
HandlerAuth(token) ==
  IF token = "none" THEN 401
  ELSE IF ~HandlerVerifies(token) \/ ~hasPermission(token) THEN 403
  ELSE 0

AuthStatus(token) ==
  IF Middleware(token) # 0 THEN Middleware(token) ELSE HandlerAuth(token)

AuthError(token) ==
  IF token = "none" THEN "Unauthorized"
  ELSE IF Middleware(token) # 0 THEN "Invalid token"
  ELSE "Forbidden"

\* An item that bills `amount` rupees at gst_rate 0.
BilledItem(amount) == [quantity |-> amount, rate |-> 1, gst_rate |-> 0]

\* The tax_invoice row POST /api/invoices leaves for one such item, with the
\* e-invoice columns it does not write (NULL, here "").
DraftInvoice(id, amount) ==
  LET totals == GrandTotals(<<TotalsLineSequence(BilledItem(amount), FALSE)>>)
  IN [tax_invoice_id |-> id, customer_id |-> 1, invoice_no |-> id,
      place_supply |-> "27", status |-> "draft",
      grand_total_taxable_amt |-> totals.grand_total_taxable_amt,
      grand_total_cgst_amt |-> totals.grand_total_cgst_amt,
      grand_total_sgst_amt |-> totals.grand_total_sgst_amt,
      grand_total_igst_amt |-> totals.grand_total_igst_amt,
      grand_total_amt |-> totals.grand_total_amt,
      irn_no |-> "", error_message |-> ""]

\* Its tax_invoice_details row.
DraftDetail(id, amount) ==
  DetailRow(id, 1, BilledItem(amount), DetailLineSequence(BilledItem(amount), FALSE))

\* The invoices on file when the e-invoice routes are exercised: one a rupee
\* below the threshold, one exactly at it.
InvoiceAmounts == <<EInvoiceThreshold - 1, EInvoiceThreshold>>

\* [id] of the URL; 9 matches no row.
RequestInvoiceIds == {1, 2, 9}

\* body.status of PUT /api/invoices ("" = absent).
BodyStatuses == {"", "draft", "paid"}

EIdle ==
  [pc |-> "idle", n |-> 0, route |-> "", token |-> "", id |-> 0, body_status |-> "",
   log_id |-> 0, outcome |-> "", submits |-> 0, status |-> 0, error |-> "",
   details |-> ""]

\* The response leaves.
EDone(a, status, error, details) ==
  [a EXCEPT !.pc = "done", !.status = status, !.error = error, !.details = details]

\* A finished request hands its response over before any request goes on.
EDelivered == \A s \in Slots : ereq[s].pc # "done"

\* A request is taken by the lowest free slot; n numbers the requests.
EAccept(r) ==
  /\ EDelivered
  /\ ereq[r].pc = "idle"
  /\ \A s \in Slots : s < r => ereq[s].pc # "idle"
  /\ estarted < MaxEInvoiceRequests
  /\ estarted' = estarted + 1

EArrived(route, token, id, body_status) ==
  [EIdle EXCEPT !.pc = "arrived", !.n = estarted + 1, !.route = route,
                !.token = token, !.id = id, !.body_status = body_status]

\* WHERE tax_invoice_id = ?
InvoiceExists(id) == id \in 1..Len(tax_invoice) /\ id \notin deleted_invoices

\* part_002:58 / the same test off by one.
BelowThreshold_Inclusive(amount) == amount <= EInvoiceThreshold * 200

BelowThreshold(amount) == amount < EInvoiceThreshold * 200

NoRefusal == [status |-> 0, error |-> ""]

\* part_002:31-84 (einvoice/route.ts:30-52 without the threshold and the
\* items test): why generation stops before the transaction log is written.
GenerateRefusal(id) ==
  IF ~InvoiceExists(id) \/ tax_invoice[id].status \notin {"draft", "generated"}
  THEN [status |-> 404, error |-> "Invoice not found or already submitted"]
  ELSE IF einv_revision = "threshold" /\ BelowThreshold(tax_invoice[id].grand_total_amt)
  THEN [status |-> 400, error |-> "E-Invoice not required for amounts below 50,000"]
  ELSE IF /\ einv_revision = "threshold"
          /\ \A i \in 1..Len(tax_invoice_details) :
               tax_invoice_details[i].tax_invoice_id # id
  THEN [status |-> 400, error |-> "No invoice items found"]
  ELSE NoRefusal

\* part_002:327-337, with the test on the status left out.
CancelRefusal_IrnOnly(id) ==
  IF ~InvoiceExists(id)
  THEN [status |-> 404, error |-> "Invoice not found"]
  ELSE IF tax_invoice[id].irn_no = ""
  THEN [status |-> 400, error |-> "Cannot cancel invoice without IRN"]
  ELSE NoRefusal

\* part_002:318-337: why cancellation stops before the log is written.
CancelRefusal(id) ==
  IF ~InvoiceExists(id)
  THEN [status |-> 404, error |-> "Invoice not found"]
  ELSE IF tax_invoice[id].irn_no = ""
  THEN [status |-> 400, error |-> "Cannot cancel invoice without IRN"]
  ELSE IF tax_invoice[id].status = "cancelled"
  THEN [status |-> 400, error |-> "Invoice already cancelled"]
  ELSE NoRefusal

\* INSERT INTO e_invoice_transaction_log (..., status) VALUES (..., 'pending');
\* `by` is the request that inserts, kept beside the row.
PendingLog(id, transaction_type) ==
  [tax_invoice_id |-> id, transaction_type |-> transaction_type,
   status |-> "pending", error_message |-> "", by |-> estarted + 1]

(* ---- POST /api/invoices/[id]/einvoice ---- *)

\* part_002:13-197: authentication, the invoice, the threshold, the items,
\* the 'pending' row of the transaction log.
StartGenerate(r, token, id) ==
  LET a == EArrived("generate", token, id, "")
      refusal == GenerateRefusal(id)
  IN /\ EAccept(r)
     /\ IF AuthStatus(token) # 0
        THEN /\ ereq' = [ereq EXCEPT ![r] = EDone(a, AuthStatus(token), AuthError(token), "")]
             /\ UNCHANGED e_invoice_transaction_log
        ELSE IF refusal.status # 0
        THEN /\ ereq' = [ereq EXCEPT ![r] = EDone(a, refusal.status, refusal.error, "")]
             /\ UNCHANGED e_invoice_transaction_log
        ELSE /\ e_invoice_transaction_log' =
                  Append(e_invoice_transaction_log, PendingLog(id, "generate"))
             /\ ereq' = [ereq EXCEPT ![r] =
                  [a EXCEPT !.pc = "calling",
                            !.log_id = Len(e_invoice_transaction_log) + 1]]
     /\ UNCHANGED <<revision, company_state_code, tax_invoice, tax_invoice_details,
                    e_invoice_sequence, resp, posted, stockVars, delVars, libVars, cacheVars, numVars, gstVars,
                    einv_revision, edge_crypto, invoices_cache>>

\* How a call of the GST API on a fresh client ends: the submit answered with
\* Success 'Y'; authenticate failing; the submit answered with an HTTP error
\* whose body carries a message; the submit answered 200 with Success 'N' and
\* InfoDtls[0].Desc; no answer at all.
ApiOutcomes == {"ok", "auth_failed", "http_error", "rejected", "no_response"}

\* What the provider said about the failure ("" = it said nothing).
ProviderDetail(outcome) ==
  CASE outcome = "http_error" -> "Invalid GSTIN"
    [] outcome = "rejected" -> "Duplicate IRN"
    [] OTHER -> ""

\* gst-api.ts:244 and 266-275: the message of the Error generateEInvoice
\* throws.  The Error built from InfoDtls is caught by the method's own catch
\* and replaced.
GenerateError(outcome) ==
  CASE outcome = "auth_failed" -> "Failed to authenticate with GST API"
    [] outcome = "http_error" -> ProviderDetail(outcome)
    [] OTHER -> "Failed to generate e-invoice"

\* gst-api.ts:278-303: cancelEInvoice returns response.data of any 2xx answer.
CancelSucceeds(outcome) == outcome \in {"ok", "rejected"}

CancelError(outcome) ==
  CASE outcome = "auth_failed" -> "Failed to authenticate with GST API"
    [] outcome = "http_error" -> ProviderDetail(outcome)
    [] OTHER -> "Failed to cancel e-invoice"

\* The submit (or cancel) calls one generateEInvoice / cancelEInvoice sends.
SubmitsOf(outcome) == IF outcome = "auth_failed" THEN 0 ELSE 1

\* WHERE tax_invoice_id = ? instead of WHERE log_id = ?
LogRowsOf_ByInvoice(r) ==
  {i \in 1..Len(e_invoice_transaction_log) :
     e_invoice_transaction_log[i].tax_invoice_id = ereq[r].id}

\* UPDATE e_invoice_transaction_log ... WHERE log_id = ?
LogRowsOf(r) == {ereq[r].log_id}

UpdateLog(r, status, message) ==
  [i \in 1..Len(e_invoice_transaction_log) |->
     IF i \in LogRowsOf(r)
     THEN [e_invoice_transaction_log[i] EXCEPT !.status = status,
                                               !.error_message = message]
     ELSE e_invoice_transaction_log[i]]

\* part_002:199-287: the API has answered; the log row, the invoice, the
\* cache, the response.
GenerateReturns(r, outcome) ==
  LET id == ereq[r].id
      called == [ereq[r] EXCEPT !.outcome = outcome, !.submits = SubmitsOf(outcome)]
  IN /\ EDelivered /\ ereq[r].pc = "calling" /\ ereq[r].route = "generate"
     /\ IF outcome = "ok"
        THEN /\ e_invoice_transaction_log' = UpdateLog(r, "success", "")
             /\ tax_invoice' = [tax_invoice EXCEPT ![id].status = "generated",
                                                   ![id].irn_no = "IRN"]
             /\ invoices_cache' = FALSE
             /\ ereq' = [ereq EXCEPT ![r] = EDone(called, 200, "", "")]
        ELSE /\ e_invoice_transaction_log' = UpdateLog(r, "failed", GenerateError(outcome))
             /\ tax_invoice' = [tax_invoice EXCEPT
                                  ![id].status = "error",
                                  ![id].error_message = GenerateError(outcome)]
             /\ UNCHANGED invoices_cache
             /\ ereq' = [ereq EXCEPT ![r] =
                  EDone(called, 400, "Failed to generate E-Invoice",
                        GenerateError(outcome))]
     /\ UNCHANGED <<revision, company_state_code, tax_invoice_details,
                    e_invoice_sequence, resp, posted, stockVars, delVars, libVars, cacheVars, numVars, gstVars,
                    einv_revision, edge_crypto, estarted>>

\* The message of the error a failed UPDATE throws.
WriteError == "Database error"

\* part_002:207-287: the API accepted the submission and the log row was set
\* to 'success' (210-221); then the UPDATE of tax_invoice (224-237) throws,
\* inside the same try block.  Its catch treats the error as the API's.
GenerateStoreFails(r) ==
  LET id == ereq[r].id
      called == [ereq[r] EXCEPT !.outcome = "ok", !.submits = SubmitsOf("ok")]
  IN /\ EDelivered /\ ereq[r].pc = "calling" /\ ereq[r].route = "generate"
     /\ e_invoice_transaction_log' = UpdateLog(r, "failed", WriteError)
     /\ tax_invoice' = [tax_invoice EXCEPT ![id].status = "error",
                                           ![id].error_message = WriteError]
     /\ ereq' = [ereq EXCEPT ![r] =
          EDone(called, 400, "Failed to generate E-Invoice", WriteError)]
     /\ UNCHANGED <<revision, company_state_code, tax_invoice_details,
                    e_invoice_sequence, resp, posted, stockVars, delVars, libVars, cacheVars, numVars, gstVars,
                    einv_revision, edge_crypto, estarted, invoices_cache>>

(* ---- DELETE /api/invoices/[id]/einvoice ---- *)

\* part_002:298-348
StartCancel(r, token, id) ==
  LET a == EArrived("cancel", token, id, "")
      refusal == CancelRefusal(id)
  IN /\ EAccept(r)
     /\ IF AuthStatus(token) # 0
        THEN /\ ereq' = [ereq EXCEPT ![r] = EDone(a, AuthStatus(token), AuthError(token), "")]
             /\ UNCHANGED e_invoice_transaction_log
        ELSE IF refusal.status # 0
        THEN /\ ereq' = [ereq EXCEPT ![r] = EDone(a, refusal.status, refusal.error, "")]
             /\ UNCHANGED e_invoice_transaction_log
        ELSE /\ e_invoice_transaction_log' =
                  Append(e_invoice_transaction_log, PendingLog(id, "cancel"))
             /\ ereq' = [ereq EXCEPT ![r] =
                  [a EXCEPT !.pc = "calling",
                            !.log_id = Len(e_invoice_transaction_log) + 1]]
     /\ UNCHANGED <<revision, company_state_code, tax_invoice, tax_invoice_details,
                    e_invoice_sequence, resp, posted, stockVars, delVars, libVars, cacheVars, numVars, gstVars,
                    einv_revision, edge_crypto, invoices_cache>>

\* part_002:350-399
CancelReturns(r, outcome) ==
  LET id == ereq[r].id
      called == [ereq[r] EXCEPT !.outcome = outcome, !.submits = SubmitsOf(outcome)]
  IN /\ EDelivered /\ ereq[r].pc = "calling" /\ ereq[r].route = "cancel"
     /\ IF CancelSucceeds(outcome)
        THEN /\ e_invoice_transaction_log' = UpdateLog(r, "success", "")
             /\ tax_invoice' = [tax_invoice EXCEPT ![id].status = "cancelled"]
             /\ invoices_cache' = FALSE
             /\ ereq' = [ereq EXCEPT ![r] = EDone(called, 200, "", "")]
        ELSE /\ e_invoice_transaction_log' = UpdateLog(r, "failed", CancelError(outcome))
             /\ UNCHANGED <<tax_invoice, invoices_cache>>
             /\ ereq' = [ereq EXCEPT ![r] =
                  EDone(called, 400, "Failed to cancel E-Invoice", CancelError(outcome))]
     /\ UNCHANGED <<revision, company_state_code, tax_invoice_details,
                    e_invoice_sequence, resp, posted, stockVars, delVars, libVars, cacheVars, numVars, gstVars,
                    einv_revision, edge_crypto, estarted>>

(* ---- PUT /api/invoices?id= ---- *)

\* route.ts:313-377: any body.status is written, unless the invoice's status
\* is 'submitted'.
PutInvoice(r, token, id, body_status) ==
  LET a == EArrived("put", token, id, body_status)
  IN /\ EAccept(r)
     /\ IF AuthStatus(token) # 0
        THEN /\ ereq' = [ereq EXCEPT ![r] = EDone(a, AuthStatus(token), AuthError(token), "")]
             /\ UNCHANGED <<tax_invoice, invoices_cache>>
        ELSE IF ~InvoiceExists(id)
        THEN /\ ereq' = [ereq EXCEPT ![r] = EDone(a, 404, "Invoice not found", "")]
             /\ UNCHANGED <<tax_invoice, invoices_cache>>
        ELSE IF tax_invoice[id].status = "submitted"
        THEN /\ ereq' = [ereq EXCEPT ![r] =
                  EDone(a, 400, "Cannot update submitted invoice", "")]
             /\ UNCHANGED <<tax_invoice, invoices_cache>>
        ELSE /\ tax_invoice' = IF body_status # ""
                               THEN [tax_invoice EXCEPT ![id].status = body_status]
                               ELSE tax_invoice
             /\ invoices_cache' = FALSE
             /\ ereq' = [ereq EXCEPT ![r] = EDone(a, 200, "", "")]
     /\ UNCHANGED <<revision, company_state_code, tax_invoice_details,
                    e_invoice_sequence, resp, posted, stockVars, delVars, libVars, cacheVars, numVars, gstVars,
                    einv_revision, edge_crypto, e_invoice_transaction_log>>

(* ---- DELETE /api/invoices?id= ---- *)

\* route.ts:380-425: the rows go, unless the invoice's status is 'submitted'.
\* Of the two DELETE statements the first `done` complete and the next one
\* throws; with both done the cache is cleared and the answer is 200.
DeleteInvoice(r, token, id, done) ==
  LET a == EArrived("delete", token, id, "")
      kept == SelectSeq(tax_invoice_details, LAMBDA d : d.tax_invoice_id # id)
  IN /\ EAccept(r)
     /\ IF AuthStatus(token) # 0
        THEN /\ done = 0
             /\ ereq' = [ereq EXCEPT ![r] = EDone(a, AuthStatus(token), AuthError(token), "")]
             /\ UNCHANGED <<tax_invoice_details, deleted_invoices, invoices_cache>>
        ELSE IF ~InvoiceExists(id)
        THEN /\ done = 0
             /\ ereq' = [ereq EXCEPT ![r] = EDone(a, 404, "Invoice not found", "")]
             /\ UNCHANGED <<tax_invoice_details, deleted_invoices, invoices_cache>>
        ELSE IF tax_invoice[id].status = "submitted"
        THEN /\ done = 0
             /\ ereq' = [ereq EXCEPT ![r] =
                  EDone(a, 400, "Cannot delete submitted invoice", "")]
             /\ UNCHANGED <<tax_invoice_details, deleted_invoices, invoices_cache>>
        ELSE /\ tax_invoice_details' = IF done >= 1 THEN kept ELSE tax_invoice_details
             /\ deleted_invoices' = IF done = 2 THEN deleted_invoices \cup {id}
                                    ELSE deleted_invoices
             /\ invoices_cache' = IF done = 2 THEN FALSE ELSE invoices_cache
             /\ ereq' = [ereq EXCEPT ![r] =
                  IF done = 2 THEN EDone(a, 200, "", "")
                  ELSE EDone(a, 500, "Internal server error", "")]
     /\ UNCHANGED <<revision, company_state_code, tax_invoice,
                    e_invoice_sequence, resp, posted, stockVars, libVars, cacheVars,
                    numVars, gstVars, einv_revision, edge_crypto,
                    e_invoice_transaction_log>>

\* The slot is free again.
EReturn(r) ==
  /\ ereq[r].pc = "done"
  /\ ereq' = [ereq EXCEPT ![r] = EIdle]
  /\ UNCHANGED <<invVars, stockVars, delVars, libVars, cacheVars, numVars, gstVars, einv_revision, edge_crypto,
                 e_invoice_transaction_log, invoices_cache, estarted>>

\* The requests the e-invoice routes are exercised with: every kind of token
\* on invoice 1, and an authorised caller on every id.
ERequests ==
  {[token |-> t, id |-> 1] : t \in TokenKinds}
  \cup {[token |-> "ok", id |-> i] : i \in RequestInvoiceIds}

NextEInvoice ==
  \/ \E r \in Slots, b \in ERequests : StartGenerate(r, b.token, b.id)
  \/ \E r \in Slots, o \in ApiOutcomes : GenerateReturns(r, o)
  \/ \E r \in Slots : GenerateStoreFails(r)
  \/ \E r \in Slots, b \in ERequests : StartCancel(r, b.token, b.id)
  \/ \E r \in Slots, o \in ApiOutcomes : CancelReturns(r, o)
  \/ \E r \in Slots, b \in ERequests, st \in BodyStatuses :
       PutInvoice(r, b.token, b.id, st)
  \/ \E r \in Slots : EReturn(r)

\* The same routes with DELETE /api/invoices beside them.
NextInvoiceEdit ==
  \/ \E r \in Slots, b \in ERequests : StartGenerate(r, b.token, b.id)
  \/ \E r \in Slots, o \in ApiOutcomes : GenerateReturns(r, o)
  \/ \E r \in Slots : GenerateStoreFails(r)
  \/ \E r \in Slots, b \in ERequests : StartCancel(r, b.token, b.id)
  \/ \E r \in Slots, o \in ApiOutcomes : CancelReturns(r, o)
  \/ \E r \in Slots, b \in ERequests, st \in BodyStatuses :
       PutInvoice(r, b.token, b.id, st)
  \/ \E r \in Slots, b \in ERequests, done \in 0..2 :
       DeleteInvoice(r, b.token, b.id, done)
  \/ \E r \in Slots : EReturn(r)

(***************************************************************************)
(* Part IV.  A GSTEInvoiceAPI client (src/lib/gst-api.ts:196-304)          *)
(*                                                                         *)
(* gst_now is Date.now() in milliseconds; accessToken and tokenExpiry are  *)
(* the fields of the client object in use (0 = undefined); gst_issued      *)
(* counts the POST /auth requests sent; gst_call describes the last        *)
(* generateEInvoice / cancelEInvoice call.  A call is one step: the awaits *)
(* inside it are not interleaved with other calls on the same object.      *)
(***************************************************************************)
MaxTicks == 6
MaxAuthRequests == 3

\* Date.now() at the start, and the time between two observations.
StartTime == 600000
TickMs == 30000

\* expires_in of the provider's answers, in seconds.
ExpiresIn == {30, 90, 150}

NoCall ==
  [method |-> "", auth |-> "", expires_in |-> 0, sent |-> FALSE, bearer |-> 0]

\* gst-api.ts:216: this.accessToken && this.tokenExpiry && Date.now() < this.tokenExpiry
TokenCached == accessToken # 0 /\ tokenExpiry # 0 /\ gst_now < tokenExpiry

\* The expiry without the one-minute buffer.
TokenExpiryAt_NoBuffer(now, expires_in) == now + expires_in * 1000

\* gst-api.ts:241
TokenExpiryAt(now, expires_in) == now + expires_in * 1000 - 60000

\* Time passes.
Tick ==
  /\ gst_now < StartTime + MaxTicks * TickMs
  /\ gst_now' = gst_now + TickMs
  /\ UNCHANGED <<accessToken, tokenExpiry, gst_issued, gst_call,
                 invVars, stockVars, delVars, libVars, cacheVars, numVars, einvVars>>

\* new GSTEInvoiceAPI() (gst-api.ts:206-213; part_002:201 and 352 make one
\* for every request).
NewClient ==
  /\ accessToken' = 0
  /\ tokenExpiry' = 0
  /\ gst_call' = NoCall
  /\ UNCHANGED <<gst_now, gst_issued, invVars, stockVars, delVars, libVars, cacheVars, numVars, einvVars>>

\* generateEInvoice / cancelEInvoice on the client (gst-api.ts:248-303):
\* authenticate, then the POST with the bearer token.  auth_ok is whether the
\* POST /auth is answered 2xx, expires_in what it answers.
Call(method, auth_ok, expires_in) ==
  /\ IF TokenCached
     THEN /\ gst_call' = [method |-> method, auth |-> "cached", expires_in |-> 0,
                          sent |-> TRUE, bearer |-> accessToken]
          /\ UNCHANGED <<accessToken, tokenExpiry, gst_issued>>
     ELSE /\ gst_issued < MaxAuthRequests
          /\ gst_issued' = gst_issued + 1
          /\ IF auth_ok
             THEN /\ accessToken' = gst_issued + 1
                  /\ tokenExpiry' = TokenExpiryAt(gst_now, expires_in)
                  /\ gst_call' = [method |-> method, auth |-> "ok",
                                  expires_in |-> expires_in, sent |-> TRUE,
                                  bearer |-> gst_issued + 1]
             ELSE /\ gst_call' = [method |-> method, auth |-> "failed",
                                  expires_in |-> 0, sent |-> FALSE, bearer |-> 0]
                  /\ UNCHANGED <<accessToken, tokenExpiry>>
  /\ UNCHANGED <<gst_now, invVars, stockVars, delVars, libVars, cacheVars, numVars, einvVars>>

NextGstClient ==
  \/ Tick
  \/ NewClient
  \/ \E method \in {"generate", "cancel"}, ok \in BOOLEAN, e \in ExpiresIn :
       Call(method, ok, e)

(***************************************************************************)
(* Part V.  GET /api/stock and the 'stock:*' cache keys                    *)
(*          (src/app/api/stock/route.ts:11-134, src/lib/redis.ts)          *)
(*                                                                         *)
(* One cache key (page 1, no filter).  A GET is one step per awaited call: *)
(* RedisCache.get, the two queries, RedisCache.set.  The writers are the   *)
(* POST /api/stock requests of Part II, whose last step deletes the keys.  *)
(***************************************************************************)
MaxGetRequests == 3

GetSlots == 1..MaxInFlight

GIdle == [pc |-> "idle", data |-> <<>>, hit |-> FALSE, status |-> 0]

\* route.ts:59-113: the rows of godown_stock, ORDER BY godown_stock_id DESC.
Listing(stock) ==
  [i \in 1..Len(stock) |->
     [id |-> Len(stock) + 1 - i,
      godown_id |-> stock[Len(stock) + 1 - i].godown_id,
      raw_material_id |-> stock[Len(stock) + 1 - i].raw_material_id,
      quantity |-> stock[Len(stock) + 1 - i].quantity]]

\* A finished GET hands its response over before any GET goes on.
GDelivered == \A g \in GetSlots : greq[g].pc # "done"

\* route.ts:31-36: the cache lookup; a hit is the response.
StartGet(g) ==
  /\ GDelivered
  /\ greq[g].pc = "idle"
  /\ \A h \in GetSlots : h < g => greq[h].pc # "idle"
  /\ gstarted < MaxGetRequests
  /\ gstarted' = gstarted + 1
  /\ greq' = [greq EXCEPT ![g] =
       IF stock_cache.present
       THEN [pc |-> "done", data |-> stock_cache.data, hit |-> TRUE, status |-> 200]
       ELSE [GIdle EXCEPT !.pc = "query"]]
  /\ UNCHANGED <<stock_cache, invVars, stockVars, delVars, libVars, einvVars, gstVars, numVars>>

\* route.ts:85-125: the listing is read from the table.
QueryStock(g) ==
  /\ GDelivered
  /\ greq[g].pc = "query"
  /\ greq' = [greq EXCEPT ![g] = [@ EXCEPT !.pc = "store", !.data = Listing(godown_stock)]]
  /\ UNCHANGED <<stock_cache, gstarted, invVars, stockVars, delVars, libVars, einvVars, gstVars, numVars>>

\* route.ts:127-129: RedisCache.set(cacheKey, result, 3600), the response.
StoreListing(g) ==
  /\ GDelivered
  /\ greq[g].pc = "store"
  /\ stock_cache' = [present |-> TRUE, data |-> greq[g].data]
  /\ greq' = [greq EXCEPT ![g] = [@ EXCEPT !.pc = "done", !.status = 200]]
  /\ UNCHANGED <<gstarted, invVars, stockVars, delVars, libVars, einvVars, gstVars, numVars>>

\* The slot is free again.
GReturn(g) ==
  /\ greq[g].pc = "done"
  /\ greq' = [greq EXCEPT ![g] = GIdle]
  /\ UNCHANGED <<stock_cache, gstarted, invVars, stockVars, delVars, libVars, einvVars, gstVars, numVars>>

\* redis.ts:21 setex: the entry's hour is over.
Expire ==
  /\ stock_cache.present
  /\ stock_cache' = NoEntry
  /\ UNCHANGED <<greq, gstarted, invVars, stockVars, delVars, libVars, einvVars, gstVars, numVars>>

\* The writes the cache is exercised with: one unit added to or taken from
\* the row of godown 1.
CacheWriteBodies ==
  {b \in StockBodies : /\ b.godown_id = 1 /\ b.raw_material_id = 1
                       /\ b.quantity = 1 /\ b.operation \in {"add", "subtract"}}

NextStockCache ==
  \/ \E r \in Slots, b \in CacheWriteBodies :
       StartStock(r, b.godown_id, b.raw_material_id, b.quantity, b.operation)
  \/ \E r \in Slots, id \in 0..Len(godown_stock) : SelectExisting(r, id)
  \/ \E r \in Slots : WriteStock(r)
  \/ \E r \in Slots : Respond(r)
  \/ \E r \in Slots : Return(r)
  \/ \E g \in GetSlots : StartGet(g)
  \/ \E g \in GetSlots : QueryStock(g)
  \/ \E g \in GetSlots : StoreListing(g)
  \/ \E g \in GetSlots : GReturn(g)
  \/ Expire

(***************************************************************************)
(* Part VI.  Invoice numbers under concurrent POST /api/invoices           *)
(*                                                                         *)
(* The handlers of Part I, one step per awaited statement that bears on    *)
(* the number: src/app/api/invoices/route.ts:189-212 (e_invoice_sequence)  *)
(* and src/unnamed/part_004:440-451 (last invoice_no + 1).  Every request  *)
(* carries the same valid body; the header and its detail rows are written *)
(* in one step, and no statement fails (except an INSERT into              *)
(* e_invoice_sequence that meets a row another request has just made).     *)
(***************************************************************************)
MaxCreateRequests == 3

NumberRevisions == {"sequence", "legacy"}

\* The body of every request here.
NumberedBody ==
  [customer_id |-> 1, place_of_supply |-> "27",
   items |-> <<[quantity |-> 10, rate |-> 100, gst_rate |-> 18]>>]

CIdle == [pc |-> "idle", number |-> 0, status |-> 0]

\* A finished request hands its response over before any request goes on.
CDelivered == \A s \in Slots : creq[s].pc # "done"

\* route.ts:134-187 / part_004:421-438: the request passes the checks.
StartCreate(r) ==
  /\ CDelivered
  /\ creq[r].pc = "idle"
  /\ \A s \in Slots : s < r => creq[s].pc # "idle"
  /\ cstarted < MaxCreateRequests
  /\ cstarted' = cstarted + 1
  /\ creq' = [creq EXCEPT ![r] = [CIdle EXCEPT !.pc = "read"]]
  /\ UNCHANGED <<invVars, stockVars, delVars, libVars, cacheVars, einvVars, gstVars>>

\* route.ts:194-206: SELECT * FROM e_invoice_sequence; invoiceNumber is built
\* from the row read, or from {current_number: 1} after the INSERT to come.
ReadSequence(r) ==
  /\ CDelivered
  /\ revision = "sequence"
  /\ creq[r].pc = "read"
  /\ creq' = [creq EXCEPT ![r] =
       IF e_invoice_sequence = 0
       THEN [@ EXCEPT !.pc = "insert_sequence", !.number = 1]
       ELSE [@ EXCEPT !.pc = "update_sequence", !.number = e_invoice_sequence]]
  /\ UNCHANGED <<invVars, stockVars, delVars, libVars, cacheVars, einvVars, gstVars, cstarted>>

\* route.ts:199-202: INSERT INTO e_invoice_sequence ... current_number 1.  When
\* another request has made the year's row in the meantime, the INSERT throws
\* if financial_year has a unique key (500), and otherwise adds a second row
\* that the SELECT of later requests does not return first.
InsertSequence(r, unique_key) ==
  /\ CDelivered
  /\ revision = "sequence"
  /\ creq[r].pc = "insert_sequence"
  /\ IF e_invoice_sequence # 0 /\ unique_key
     THEN /\ creq' = [creq EXCEPT ![r] = [@ EXCEPT !.pc = "done", !.status = 500]]
          /\ UNCHANGED e_invoice_sequence
     ELSE /\ creq' = [creq EXCEPT ![r] = [@ EXCEPT !.pc = "update_sequence"]]
          /\ e_invoice_sequence' =
               IF e_invoice_sequence = 0 THEN 1 ELSE e_invoice_sequence
  /\ UNCHANGED <<revision, company_state_code, tax_invoice, tax_invoice_details,
                 resp, posted, stockVars, delVars, libVars, cacheVars, einvVars, gstVars, cstarted>>

\* route.ts:209-212: UPDATE e_invoice_sequence SET current_number = current_number + 1
UpdateSequence(r) ==
  /\ CDelivered
  /\ revision = "sequence"
  /\ creq[r].pc = "update_sequence"
  /\ e_invoice_sequence' = e_invoice_sequence + 1
  /\ creq' = [creq EXCEPT ![r] = [@ EXCEPT !.pc = "header"]]
  /\ UNCHANGED <<revision, company_state_code, tax_invoice, tax_invoice_details,
                 resp, posted, stockVars, delVars, libVars, cacheVars, einvVars, gstVars, cstarted>>

\* part_004:441-451: SELECT invoice_no ... ORDER BY tax_invoice_id DESC LIMIT 1
ReadLast(r) ==
  /\ CDelivered
  /\ revision = "legacy"
  /\ creq[r].pc = "read"
  /\ creq' = [creq EXCEPT ![r] = [@ EXCEPT !.pc = "header", !.number = LegacyNumber]]
  /\ UNCHANGED <<invVars, stockVars, delVars, libVars, cacheVars, einvVars, gstVars, cstarted>>

\* route.ts:242-287 / part_004:471-523: the header with the number, its detail
\* rows, 201.
InsertNumbered(r) ==
  LET b == NumberedBody
      inter == isInterState(b.customer_id, b.place_of_supply)
      invoiceId == Len(tax_invoice) + 1
      lines == IF revision = "sequence"
               THEN [i \in 1..Len(b.items) |-> TotalsLineSequence(b.items[i], inter)]
               ELSE [i \in 1..Len(b.items) |-> TotalsLineLegacy(b.items[i])]
      rows == IF revision = "sequence"
              THEN DetailRowsSequence(invoiceId, b.items, inter)
              ELSE DetailRowsLegacy(invoiceId, b.items)
  IN /\ CDelivered
     /\ creq[r].pc = "header"
     /\ tax_invoice' = Append(tax_invoice,
          HeaderRow(b.customer_id, creq[r].number, b.place_of_supply, GrandTotals(lines)))
     /\ tax_invoice_details' = tax_invoice_details \o rows
     /\ creq' = [creq EXCEPT ![r] = [@ EXCEPT !.pc = "done", !.status = 201]]
     /\ UNCHANGED <<revision, company_state_code, e_invoice_sequence, resp, posted,
                    stockVars, delVars, libVars, cacheVars, einvVars, gstVars, cstarted>>

\* The slot is free again.
CReturn(r) ==
  /\ creq[r].pc = "done"
  /\ creq' = [creq EXCEPT ![r] = CIdle]
  /\ UNCHANGED <<invVars, stockVars, delVars, libVars, cacheVars, einvVars, gstVars, cstarted>>

NextInvoiceNumbers ==
  \/ \E r \in Slots : StartCreate(r)
  \/ \E r \in Slots : ReadSequence(r)
  \/ \E r \in Slots, unique_key \in BOOLEAN : InsertSequence(r, unique_key)
  \/ \E r \in Slots : UpdateSequence(r)
  \/ \E r \in Slots : ReadLast(r)
  \/ \E r \in Slots : InsertNumbered(r)
  \/ \E r \in Slots : CReturn(r)

(***************************************************************************)
(* Part VII.  The e-invoice payload                                        *)
(*                                                                         *)
(* The data object POST /api/invoices/[id]/einvoice builds from the stored *)
(* invoice (src/unnamed/part_002:125-186) and buildEInvoicePayload         *)
(* (src/lib/gst-api.ts:307-365), which turns it into the document sent to  *)
(* the API.  Only the state codes and the amounts are kept.  A JavaScript  *)
(* value is a record: a number with its value in 1/400 rupee (half of the  *)
(* unit the columns are kept in, so that x / 2 stays whole), undefined, or *)
(* NaN.                                                                    *)
(***************************************************************************)
JsNumber(v) == [t |-> "number", v |-> v]
JsUndefined == [t |-> "undefined", v |-> 0]
JsNaN == [t |-> "NaN", v |-> 0]

\* Number(row.column || 0) of a DECIMAL column
ColumnNumber(x) == JsNumber(2 * x)

\* obj.name: undefined where the object has no such property
Prop(obj, name) == IF name \in DOMAIN obj THEN obj[name] ELSE JsUndefined

\* x / 2: undefined / 2 is NaN
Halved(x) == IF x.t = "number" THEN JsNumber(x.v \div 2) ELSE JsNaN

\* A GSTIN: the two digits of the state, then the rest.
Gstin(state, rest) == <<state, rest>>

\* gstin.substring(0, 2)
GstinStateCode(gstin) == gstin[1]

\* gst_settings row 'company_gstin'
CompanyGstins == {Gstin("19", "AAACS0000A1Z5"), Gstin("27", "AAACS0000A1Z5")}

\* master_customer: customer_id -> customer_gst_in
customer_gst_in(c) ==
  CASE c = 1 -> Gstin("27", "AABCP1111B1Z3")
    [] c = 2 -> Gstin("19", "AABCQ2222C1Z1")
    [] OTHER -> Gstin("27", "AABCR3333D1Z9")

\* SELECT tid.* ... WHERE tid.tax_invoice_id = ? ORDER BY tid.item_serial_number
\* (part_002:64-76); the rows of an invoice are inserted in that order.
InvoiceItems(id) ==
  SelectSeq(tax_invoice_details, LAMBDA d : d.tax_invoice_id = id)

\* part_002:159-176: one element of eInvoiceData.items.
EInvoiceItem(item) ==
  [amount |-> ColumnNumber(item.taxable_amt),
   cgstAmount |-> ColumnNumber(item.cgst_amt),
   sgstAmount |-> ColumnNumber(item.sgst_amt),
   igstAmount |-> ColumnNumber(item.igst_amount),
   totalAmount |-> ColumnNumber(item.total_amount)]

\* part_002:125-186: eInvoiceData for the invoice and the settings read.
EInvoiceData(id, company_gstin) ==
  LET invoice == tax_invoice[id]
      items == InvoiceItems(id)
      buyerState == IF customer_state_code(invoice.customer_id) # ""
                    THEN customer_state_code(invoice.customer_id)
                    ELSE invoice.place_supply
  IN [sellerGstin |-> company_gstin,
      sellerStateCode |-> company_state_code,
      buyerGstin |-> customer_gst_in(invoice.customer_id),
      buyerStateCode |-> buyerState,
      items |-> [i \in 1..Len(items) |-> EInvoiceItem(items[i])],
      totalAmount |-> ColumnNumber(invoice.grand_total_taxable_amt),
      cgstAmount |-> ColumnNumber(invoice.grand_total_cgst_amt),
      sgstAmount |-> ColumnNumber(invoice.grand_total_sgst_amt),
      igstAmount |-> JsNumber(0),
      netAmount |-> ColumnNumber(invoice.grand_total_amt),
      isInterState |-> company_state_code # buyerState]

\* gst-api.ts:345-360: one element of ItemList.
PayloadItem(item, isInter) ==
  [AssAmt |-> Prop(item, "amount"),
   IgstAmt |-> IF isInter THEN Prop(item, "gstAmount") ELSE JsNumber(0),
   CgstAmt |-> IF isInter THEN JsNumber(0) ELSE Halved(Prop(item, "gstAmount")),
   SgstAmt |-> IF isInter THEN JsNumber(0) ELSE Halved(Prop(item, "gstAmount")),
   TotItemVal |-> Prop(item, "totalAmount")]

\* gst-api.ts:307-365
buildEInvoicePayload(invoiceData) ==
  LET sellerState == GstinStateCode(invoiceData.sellerGstin)
      buyerState == GstinStateCode(invoiceData.buyerGstin)
      isInter == sellerState # buyerState
  IN [SellerDtls |-> [Stcd |-> sellerState],
      BuyerDtls |-> [Pos |-> buyerState, Stcd |-> buyerState],
      ItemList |-> [i \in 1..Len(invoiceData.items) |->
                      PayloadItem(invoiceData.items[i], isInter)],
      ValDtls |->
        [AssVal |-> Prop(invoiceData, "totalAmount"),
         CgstVal |-> IF isInter THEN JsNumber(0)
                     ELSE Halved(Prop(invoiceData, "gstAmount")),
         SgstVal |-> IF isInter THEN JsNumber(0)
                     ELSE Halved(Prop(invoiceData, "gstAmount")),
         IgstVal |-> IF isInter THEN Prop(invoiceData, "gstAmount") ELSE JsNumber(0),
         TotInvVal |-> Prop(invoiceData, "netAmount")]]

NoPayload == [id |-> 0, body |-> <<>>]

\* part_002:13-204, as far as the payload: the request passes the tests of
\* the route, the data object is built and handed to buildEInvoicePayload.
BuildPayload(id, company_gstin) ==
  /\ GenerateRefusal(id) = NoRefusal
  /\ einvoice_payload' =
       [id |-> id, body |-> buildEInvoicePayload(EInvoiceData(id, company_gstin))]
  /\ UNCHANGED <<invVars, stockVars, delVars, cacheVars, numVars, einvVars, gstVars,
                 perm_user, perm_check>>

\* What a request of the invoices the payload is built for carries: items of
\* 50,000 rupees, the least the route of part_002 goes on with.
PayloadItemLists ==
  UNION {[1..n -> [quantity : {500}, rate : {100}, gst_rate : GstRates]] : n \in 1..MaxItems}

\* part_004:201-290 / route.ts:225-287 / part_004:459-505: the line of the
\* totals loop and of the details loop in the deployed revision.
TotalsLine(item, inter) ==
  CASE revision = "igst" -> TotalsLineIgst(item, inter)
    [] revision = "sequence" -> TotalsLineSequence(item, inter)
    [] OTHER -> TotalsLineLegacy(item)

DetailLine(item, inter) ==
  CASE revision = "igst" -> DetailLineIgst(item, inter)
    [] revision = "sequence" -> DetailLineSequence(item, inter)
    [] OTHER -> DetailLineLegacy(item)

\* The tax_invoice row a successful POST /api/invoices leaves as invoice `id`,
\* with the e-invoice columns it does not write.
FiledInvoice(id, customer_id, place_of_supply, items) ==
  LET inter == isInterState(customer_id, place_of_supply)
      totals == GrandTotals([i \in 1..Len(items) |-> TotalsLine(items[i], inter)])
  IN [tax_invoice_id |-> id, customer_id |-> customer_id, invoice_no |-> id,
      place_supply |-> place_of_supply, status |-> "draft",
      grand_total_taxable_amt |-> totals.grand_total_taxable_amt,
      grand_total_cgst_amt |-> totals.grand_total_cgst_amt,
      grand_total_sgst_amt |-> totals.grand_total_sgst_amt,
      grand_total_igst_amt |-> totals.grand_total_igst_amt,
      grand_total_amt |-> totals.grand_total_amt,
      irn_no |-> "", error_message |-> ""]

\* Its tax_invoice_details rows.
FiledDetails(id, customer_id, place_of_supply, items) ==
  LET inter == isInterState(customer_id, place_of_supply)
  IN [i \in 1..Len(items) |->
        DetailRow(id, IF revision = "legacy" THEN 0 ELSE i, items[i],
                  DetailLine(items[i], inter))]

NextPayload ==
  \/ \E id \in RequestInvoiceIds, g \in CompanyGstins : BuildPayload(id, g)

(***************************************************************************)
(* Part VIII.  Users and permissions (src/lib/gst-api.ts:373-541)          *)
(*                                                                         *)
(* A User object comes from authenticateUser or getUserById, with the      *)
(* permissions getUserPermissions collects, or from verifyToken, with      *)
(* none; hasPermission is asked about it.                                  *)
(***************************************************************************)

\* master_user.role / the role of a token's payload
Roles == {"admin", "manager", "accountant", "user"}

\* The modules the routes ask about and getUserPermissions names.
Modules == {"SALES", "PURCHASE", "INVENTORY", "MASTERS", "REPORTS"}

PermissionActions == {"read", "write", "delete"}

\* department_name of the rows of master_user_department_access of a user
DepartmentGrants == SUBSET {"PURCHASE", "INVENTORY", "MASTERS"}

\* gst-api.ts:428-453: the granted departments and the modules of the role,
\* or ['SALES'] when the query throws.
getUserPermissions(departments, role, db_ok) ==
  IF ~db_ok THEN {"SALES"}
  ELSE departments \cup
         (IF role = "admin"
          THEN {"SALES", "PURCHASE", "INVENTORY", "MASTERS", "REPORTS"}
          ELSE IF role = "manager" THEN {"SALES", "INVENTORY", "REPORTS"}
          ELSE {"SALES"})

\* Mutant of hasPermissionRole: a module among the user's permissions may be
\* read and written.
hasPermissionRole_Grants(user, module, action) ==
  IF user.role = "admin" THEN TRUE
  ELSE IF action # "delete" /\ module \in user.permissions THEN TRUE
  ELSE IF user.role = "manager"
  THEN action # "delete" /\ module \in {"SALES", "INVENTORY", "REPORTS"}
  ELSE action = "read" /\ module = "SALES"

\* gst-api.ts:531-541, hasPermission(user, module, action) of the role-based
\* revision (Part III's hasPermission is the same call seen from a token).
hasPermissionRole(user, module, action) ==
  IF user.role = "admin" THEN TRUE
  ELSE IF user.role = "manager"
  THEN action # "delete" /\ module \in {"SALES", "INVENTORY", "REPORTS"}
  ELSE action = "read" /\ module = "SALES"

NoUser == [role |-> "", permissions |-> {}, from |-> ""]

NoCheck == [module |-> "", action |-> "", allowed |-> FALSE]

\* gst-api.ts:391-425 (getUserById, 638-662, builds the same object): the row
\* of master_user has this role and these departments are granted to it.
authenticateUser(role, departments, db_ok) ==
  /\ perm_user' = [role |-> role,
                   permissions |-> getUserPermissions(departments, role, db_ok),
                   from |-> "authenticateUser"]
  /\ perm_check' = NoCheck
  /\ UNCHANGED <<invVars, stockVars, delVars, cacheVars, numVars, einvVars, gstVars,
                 einvoice_payload>>

\* gst-api.ts:474-517: the user of a token whose payload carries this role.
verifyToken(role) ==
  /\ perm_user' = [role |-> role, permissions |-> {}, from |-> "verifyToken"]
  /\ perm_check' = NoCheck
  /\ UNCHANGED <<invVars, stockVars, delVars, cacheVars, numVars, einvVars, gstVars,
                 einvoice_payload>>

\* hasPermission(user, module, action) is called for the user at hand.
CheckPermission(module, action) ==
  /\ perm_user # NoUser
  /\ perm_check' = [module |-> module, action |-> action,
                    allowed |-> hasPermissionRole(perm_user, module, action)]
  /\ UNCHANGED <<invVars, stockVars, delVars, cacheVars, numVars, einvVars, gstVars,
                 einvoice_payload, perm_user>>

NextPermission ==
  \/ \E role \in Roles, departments \in DepartmentGrants, db_ok \in BOOLEAN :
       authenticateUser(role, departments, db_ok)
  \/ \E role \in Roles : verifyToken(role)
  \/ \E module \in Modules, action \in PermissionActions :
       CheckPermission(module, action)

(***************************************************************************)
(* Specifications                                                          *)
(***************************************************************************)
vars == <<invVars, stockVars, delVars, libVars, cacheVars, numVars, einvVars, gstVars>>

\* A fresh database behind one deployed revision of the invoice handler, the
\* company's state code set or not; no request in flight.
InitInvoice ==
  /\ revision \in Revisions
  /\ company_state_code \in {"", "19"}
  /\ tax_invoice = <<>>
  /\ tax_invoice_details = <<>>
  /\ e_invoice_sequence = 0
  /\ resp = NoResponse
  /\ posted = 0
  /\ godown_stock = <<>>
  /\ raw_material_stockout = <<>>
  /\ raw_material_stockout_details = <<>>
  /\ req = [r \in Slots |-> Idle]
  /\ started = 0
  /\ einv_revision = "threshold"
  /\ edge_crypto = TRUE
  /\ e_invoice_transaction_log = <<>>
  /\ invoices_cache = FALSE
  /\ ereq = [r \in Slots |-> EIdle]
  /\ estarted = 0
  /\ gst_now = 0
  /\ accessToken = 0
  /\ tokenExpiry = 0
  /\ gst_issued = 0
  /\ gst_call = NoCall
  /\ stock_cache = NoEntry
  /\ greq = [g \in GetSlots |-> GIdle]
  /\ gstarted = 0
  /\ creq = [r \in Slots |-> CIdle]
  /\ cstarted = 0
  /\ deleted_invoices = {}
  /\ einvoice_payload = NoPayload
  /\ perm_user = NoUser
  /\ perm_check = NoCheck

\* The same fresh database, seen from the stock routes.
InitStock ==
  /\ revision = "sequence"
  /\ company_state_code = ""
  /\ tax_invoice = <<>>
  /\ tax_invoice_details = <<>>
  /\ e_invoice_sequence = 0
  /\ resp = NoResponse
  /\ posted = 0
  /\ godown_stock = <<>>
  /\ raw_material_stockout = <<>>
  /\ raw_material_stockout_details = <<>>
  /\ req = [r \in Slots |-> Idle]
  /\ started = 0
  /\ einv_revision = "threshold"
  /\ edge_crypto = TRUE
  /\ e_invoice_transaction_log = <<>>
  /\ invoices_cache = FALSE
  /\ ereq = [r \in Slots |-> EIdle]
  /\ estarted = 0
  /\ gst_now = 0
  /\ accessToken = 0
  /\ tokenExpiry = 0
  /\ gst_issued = 0
  /\ gst_call = NoCall
  /\ stock_cache = NoEntry
  /\ greq = [g \in GetSlots |-> GIdle]
  /\ gstarted = 0
  /\ creq = [r \in Slots |-> CIdle]
  /\ cstarted = 0
  /\ deleted_invoices = {}
  /\ einvoice_payload = NoPayload
  /\ perm_user = NoUser
  /\ perm_check = NoCheck

\* Two invoices on file, one deployed revision of the e-invoice route, the
\* invoice list cached; no request in flight.
InitEInvoice ==
  /\ revision = "sequence"
  /\ company_state_code = ""
  /\ tax_invoice = [i \in 1..Len(InvoiceAmounts) |-> DraftInvoice(i, InvoiceAmounts[i])]
  /\ tax_invoice_details =
       [i \in 1..Len(InvoiceAmounts) |-> DraftDetail(i, InvoiceAmounts[i])]
  /\ e_invoice_sequence = Len(InvoiceAmounts) + 1
  /\ resp = NoResponse
  /\ posted = 0
  /\ godown_stock = <<>>
  /\ raw_material_stockout = <<>>
  /\ raw_material_stockout_details = <<>>
  /\ req = [r \in Slots |-> Idle]
  /\ started = 0
  /\ einv_revision \in EInvoiceRevisions
  /\ edge_crypto \in BOOLEAN
  /\ e_invoice_transaction_log = <<>>
  /\ invoices_cache = TRUE
  /\ ereq = [r \in Slots |-> EIdle]
  /\ estarted = 0
  /\ gst_now = 0
  /\ accessToken = 0
  /\ tokenExpiry = 0
  /\ gst_issued = 0
  /\ gst_call = NoCall
  /\ stock_cache = NoEntry
  /\ greq = [g \in GetSlots |-> GIdle]
  /\ gstarted = 0
  /\ creq = [r \in Slots |-> CIdle]
  /\ cstarted = 0
  /\ deleted_invoices = {}
  /\ einvoice_payload = NoPayload
  /\ perm_user = NoUser
  /\ perm_check = NoCheck

\* A client not yet constructed, nothing else going on.
InitGstClient ==
  /\ revision = "sequence"
  /\ company_state_code = ""
  /\ tax_invoice = <<>>
  /\ tax_invoice_details = <<>>
  /\ e_invoice_sequence = 1
  /\ resp = NoResponse
  /\ posted = 0
  /\ godown_stock = <<>>
  /\ raw_material_stockout = <<>>
  /\ raw_material_stockout_details = <<>>
  /\ req = [r \in Slots |-> Idle]
  /\ started = 0
  /\ einv_revision = "threshold"
  /\ edge_crypto = TRUE
  /\ e_invoice_transaction_log = <<>>
  /\ invoices_cache = FALSE
  /\ ereq = [r \in Slots |-> EIdle]
  /\ estarted = 0
  /\ gst_now = StartTime
  /\ accessToken = 0
  /\ tokenExpiry = 0
  /\ gst_issued = 0
  /\ gst_call = NoCall
  /\ stock_cache = NoEntry
  /\ greq = [g \in GetSlots |-> GIdle]
  /\ gstarted = 0
  /\ creq = [r \in Slots |-> CIdle]
  /\ cstarted = 0
  /\ deleted_invoices = {}
  /\ einvoice_payload = NoPayload
  /\ perm_user = NoUser
  /\ perm_check = NoCheck

\* One row in the ledger, nothing cached, no request in flight.
InitStockCache ==
  /\ revision = "sequence"
  /\ company_state_code = ""
  /\ tax_invoice = <<>>
  /\ tax_invoice_details = <<>>
  /\ e_invoice_sequence = 1
  /\ resp = NoResponse
  /\ posted = 0
  /\ godown_stock = <<StockRow(1, 1, 1)>>
  /\ raw_material_stockout = <<>>
  /\ raw_material_stockout_details = <<>>
  /\ req = [r \in Slots |-> Idle]
  /\ started = 0
  /\ einv_revision = "threshold"
  /\ edge_crypto = TRUE
  /\ e_invoice_transaction_log = <<>>
  /\ invoices_cache = FALSE
  /\ ereq = [r \in Slots |-> EIdle]
  /\ estarted = 0
  /\ gst_now = 0
  /\ accessToken = 0
  /\ tokenExpiry = 0
  /\ gst_issued = 0
  /\ gst_call = NoCall
  /\ stock_cache = NoEntry
  /\ greq = [g \in GetSlots |-> GIdle]
  /\ gstarted = 0
  /\ creq = [r \in Slots |-> CIdle]
  /\ cstarted = 0
  /\ deleted_invoices = {}
  /\ einvoice_payload = NoPayload
  /\ perm_user = NoUser
  /\ perm_check = NoCheck

\* A fresh database behind the e_invoice_sequence revision or the
\* last-invoice-plus-one revision; no request in flight.
InitInvoiceNumbers ==
  /\ revision \in NumberRevisions
  /\ company_state_code = ""
  /\ tax_invoice = <<>>
  /\ tax_invoice_details = <<>>
  /\ e_invoice_sequence = 0
  /\ resp = NoResponse
  /\ posted = 0
  /\ godown_stock = <<>>
  /\ raw_material_stockout = <<>>
  /\ raw_material_stockout_details = <<>>
  /\ req = [r \in Slots |-> Idle]
  /\ started = 0
  /\ einv_revision = "threshold"
  /\ edge_crypto = TRUE
  /\ e_invoice_transaction_log = <<>>
  /\ invoices_cache = FALSE
  /\ ereq = [r \in Slots |-> EIdle]
  /\ estarted = 0
  /\ gst_now = 0
  /\ accessToken = 0
  /\ tokenExpiry = 0
  /\ gst_issued = 0
  /\ gst_call = NoCall
  /\ stock_cache = NoEntry
  /\ greq = [g \in GetSlots |-> GIdle]
  /\ gstarted = 0
  /\ creq = [r \in Slots |-> CIdle]
  /\ cstarted = 0
  /\ deleted_invoices = {}
  /\ einvoice_payload = NoPayload
  /\ perm_user = NoUser
  /\ perm_check = NoCheck

\* One more invoice request is handled, the ledger at rest.
\* One invoice on file, as a successful POST /api/invoices of the deployed
\* revision left it; nothing else going on.
InitPayload ==
  /\ revision \in Revisions
  /\ company_state_code \in {"", "19"}
  /\ \E c \in CustomerIds, p \in StateCodes, items \in PayloadItemLists :
       /\ tax_invoice = <<FiledInvoice(1, c, p, items)>>
       /\ tax_invoice_details = FiledDetails(1, c, p, items)
  /\ e_invoice_sequence = 1
  /\ resp = NoResponse
  /\ posted = 0
  /\ godown_stock = <<>>
  /\ raw_material_stockout = <<>>
  /\ raw_material_stockout_details = <<>>
  /\ req = [r \in Slots |-> Idle]
  /\ started = 0
  /\ einv_revision = "threshold"
  /\ edge_crypto = TRUE
  /\ e_invoice_transaction_log = <<>>
  /\ invoices_cache = FALSE
  /\ ereq = [r \in Slots |-> EIdle]
  /\ estarted = 0
  /\ gst_now = 0
  /\ accessToken = 0
  /\ tokenExpiry = 0
  /\ gst_issued = 0
  /\ gst_call = NoCall
  /\ stock_cache = NoEntry
  /\ greq = [g \in GetSlots |-> GIdle]
  /\ gstarted = 0
  /\ creq = [r \in Slots |-> CIdle]
  /\ cstarted = 0
  /\ deleted_invoices = {}
  /\ einvoice_payload = NoPayload
  /\ perm_user = NoUser
  /\ perm_check = NoCheck

\* The invoices on file, with every route that changes them open.
InitInvoiceEdit ==
  /\ revision = "sequence"
  /\ company_state_code = ""
  /\ tax_invoice = [i \in 1..Len(InvoiceAmounts) |-> DraftInvoice(i, InvoiceAmounts[i])]
  /\ tax_invoice_details =
       [i \in 1..Len(InvoiceAmounts) |-> DraftDetail(i, InvoiceAmounts[i])]
  /\ e_invoice_sequence = Len(InvoiceAmounts) + 1
  /\ resp = NoResponse
  /\ posted = 0
  /\ godown_stock = <<>>
  /\ raw_material_stockout = <<>>
  /\ raw_material_stockout_details = <<>>
  /\ req = [r \in Slots |-> Idle]
  /\ started = 0
  /\ einv_revision \in EInvoiceRevisions
  /\ edge_crypto \in BOOLEAN
  /\ e_invoice_transaction_log = <<>>
  /\ invoices_cache = TRUE
  /\ ereq = [r \in Slots |-> EIdle]
  /\ estarted = 0
  /\ gst_now = 0
  /\ accessToken = 0
  /\ tokenExpiry = 0
  /\ gst_issued = 0
  /\ gst_call = NoCall
  /\ stock_cache = NoEntry
  /\ greq = [g \in GetSlots |-> GIdle]
  /\ gstarted = 0
  /\ creq = [r \in Slots |-> CIdle]
  /\ cstarted = 0
  /\ deleted_invoices = {}
  /\ einvoice_payload = NoPayload
  /\ perm_user = NoUser
  /\ perm_check = NoCheck

\* No user object yet, nothing else going on.
InitPermission ==
  /\ revision = "sequence"
  /\ company_state_code = ""
  /\ tax_invoice = <<>>
  /\ tax_invoice_details = <<>>
  /\ e_invoice_sequence = 1
  /\ resp = NoResponse
  /\ posted = 0
  /\ godown_stock = <<>>
  /\ raw_material_stockout = <<>>
  /\ raw_material_stockout_details = <<>>
  /\ req = [r \in Slots |-> Idle]
  /\ started = 0
  /\ einv_revision = "threshold"
  /\ edge_crypto = TRUE
  /\ e_invoice_transaction_log = <<>>
  /\ invoices_cache = FALSE
  /\ ereq = [r \in Slots |-> EIdle]
  /\ estarted = 0
  /\ gst_now = StartTime
  /\ accessToken = 0
  /\ tokenExpiry = 0
  /\ gst_issued = 0
  /\ gst_call = NoCall
  /\ stock_cache = NoEntry
  /\ greq = [g \in GetSlots |-> GIdle]
  /\ gstarted = 0
  /\ creq = [r \in Slots |-> CIdle]
  /\ cstarted = 0
  /\ deleted_invoices = {}
  /\ einvoice_payload = NoPayload
  /\ perm_user = NoUser
  /\ perm_check = NoCheck

Handled ==
  /\ posted < MaxInvoiceRequests
  /\ posted' = posted + 1
  /\ UNCHANGED <<stockVars, delVars, libVars, cacheVars, numVars, einvVars, gstVars>>

NextInvoice ==
  \/ \E b \in InvoiceRequestFields :
       Handled /\ PostInvoiceIgst(b.customer_id, b.invoice_date, b.place_of_supply, b.items)
  \/ \E b \in InvoiceRequestFields :
       Handled /\ PostInvoiceSequence(b.customer_id, b.invoice_date, b.place_of_supply, b.items)
  \/ \E b \in InvoiceRequestFields :
       Handled /\ PostInvoiceLegacy(b.customer_id, b.invoice_date, b.place_of_supply, b.items)

\* Invoice creation, the ledger at rest.
SpecInvoice == InitInvoice /\ [][NextInvoice]_vars

\* The stock ledger, no invoice being created.
SpecStock == InitStock /\ [][NextStock]_vars

\* The e-invoice routes and PUT /api/invoices on the invoices on file.
SpecEInvoice == InitEInvoice /\ [][NextEInvoice]_vars

\* GSTEInvoiceAPI clients over time.
SpecGstClient == InitGstClient /\ [][NextGstClient]_vars

\* POST and GET /api/stock sharing the cache.
SpecStockCache == InitStockCache /\ [][NextStockCache]_vars

\* POST /api/invoices requests in flight together.
SpecInvoiceNumbers == InitInvoiceNumbers /\ [][NextInvoiceNumbers]_vars

\* The e-invoice routes, PUT and DELETE /api/invoices on the invoices on file.
SpecInvoiceEdit == InitInvoiceEdit /\ [][NextInvoiceEdit]_vars

\* buildEInvoicePayload on the invoices on file.
SpecPayload == InitPayload /\ [][NextPayload]_vars

\* hasPermission on the User objects the library builds.
SpecPermission == InitPermission /\ [][NextPermission]_vars

(***************************************************************************)
(* Claims about invoice creation (checked under SpecInvoice)               *)
(***************************************************************************)

\* The detail rows persisted for invoice `id`.
DetailsOf(id) == SelectSeq(tax_invoice_details, LAMBDA d : d.tax_invoice_id = id)

\* The interstate flag of the invoice a detail row belongs to, from the stored
\* customer and place of supply and the company settings.
InterStateOf(d) ==
  isInterState(tax_invoice[d.tax_invoice_id].customer_id,
               tax_invoice[d.tax_invoice_id].place_supply)

\* C1 (as claimed): every line invoice creation computes and stores has
\* taxable_amount = quantity * rate and, when seller and buyer state differ,
\* igst_amount = taxable_amount * gst_rate / 100 with cgst = sgst = 0, and
\* otherwise cgst_amount = sgst_amount = taxable_amount * gst_rate / 200 with
\* igst = 0 -- in every revision of the handler.  (Amounts in 1/200ths.)
C1_TaxSplitEveryRevision ==
  \A i \in 1..Len(tax_invoice_details) :
    LET d == tax_invoice_details[i] IN
      /\ d.taxable_amt = d.qty * d.rate * 200
      /\ IF InterStateOf(d)
         THEN /\ d.igst_amount * 100 = d.taxable_amt * d.gst_rate
              /\ d.cgst_amt = 0 /\ d.sgst_amt = 0
         ELSE /\ d.cgst_amt * 200 = d.taxable_amt * d.gst_rate
              /\ d.sgst_amt * 200 = d.taxable_amt * d.gst_rate
              /\ d.igst_amount = 0

\* C2 (as claimed, read in its favour for lines whose gst_rate is above 0;
\* a line at gst_rate 0 has both buckets zero in every revision): for every
\* persisted line, line_total = taxable + cgst + sgst + igst, and exactly one
\* of the buckets cgst+sgst and igst is non-zero: cgst+sgst when seller state
\* equals buyer state, igst otherwise.
C2_LineTotalAndOneBucket ==
  \A i \in 1..Len(tax_invoice_details) :
    LET d == tax_invoice_details[i] IN
      /\ d.total_amount = d.taxable_amt + d.cgst_amt + d.sgst_amt + d.igst_amount
      /\ d.gst_rate > 0 =>
         IF InterStateOf(d)
         THEN d.igst_amount # 0 /\ d.cgst_amt + d.sgst_amt = 0
         ELSE d.cgst_amt + d.sgst_amt # 0 /\ d.igst_amount = 0

RowsFor(stock, g, m) ==
  {i \in 1..Len(stock) : stock[i].godown_id = g /\ stock[i].raw_material_id = m}

\* Request r has been answered, and by the handler rather than by its catch.
Answered(r) == req[r].pc = "done" /\ req[r].status # 500

\* Request r is a POST /api/stock with this operation that passed validation
\* and the master lookups.
StockOp(r, operation) ==
  /\ req[r].route = "stock" /\ req[r].op = operation
  /\ req[r].quantity > 0
  /\ req[r].godown_id \in Godowns /\ req[r].raw_material_id \in Materials

\* C4: a subtract is answered 400 and writes nothing when it finds no row or
\* a row holding less than q; otherwise it is answered 201 and the row it read
\* holds exactly (value read) - q, every other row as before.  The value a
\* subtract is about to write is never negative.
C4_SubtractContract ==
  \A r \in Slots :
    /\ (StockOp(r, "subtract") /\ req[r].pc = "write") => req[r].new_quantity >= 0
    /\ (StockOp(r, "subtract") /\ Answered(r)) =>
         LET q == req[r].quantity
             before == req[r].snap.stock
         IN /\ req[r].alone =>
                 /\ req[r].found = 0 <=>
                      RowsFor(before, req[r].godown_id, req[r].raw_material_id) = {}
                 /\ req[r].found # 0 =>
                      /\ req[r].found \in
                           RowsFor(before, req[r].godown_id, req[r].raw_material_id)
                      /\ req[r].read_quantity = before[req[r].found].quantity
            /\ IF req[r].found = 0 \/ q > req[r].read_quantity
               THEN /\ req[r].status = 400
                    /\ req[r].error \in {"Insufficient stock",
                                         "Cannot subtract from non-existent stock"}
                    /\ req[r].alone => godown_stock = before
               ELSE /\ req[r].status = 201
                    /\ req[r].new_quantity = req[r].read_quantity - q
                    /\ req[r].new_quantity >= 0
                    /\ req[r].alone =>
                         godown_stock =
                           [before EXCEPT ![req[r].found].quantity = @ - q]

\* C4 witness: one subtract refused against a row that holds less than q, the
\* row untouched.
C4_Witness ==
  \E r \in Slots :
    /\ StockOp(r, "subtract") /\ Answered(r) /\ req[r].alone
    /\ req[r].found # 0 /\ req[r].quantity > req[r].read_quantity
    /\ req[r].status = 400
    /\ godown_stock[req[r].found].quantity = req[r].read_quantity
    /\ req[r].read_quantity > 0

\* C5: an add (q > 0) on a pair with no row creates one row with quantity q;
\* on an existing pair the row it read holds old + q; no other row changes.
C5_AddContract ==
  \A r \in Slots :
    (StockOp(r, "add") /\ Answered(r)) =>
      LET q == req[r].quantity
          before == req[r].snap.stock
          rows == RowsFor(before, req[r].godown_id, req[r].raw_material_id)
      IN /\ req[r].status = 201
         /\ req[r].alone =>
              IF rows = {}
              THEN godown_stock =
                     Append(before,
                            StockRow(req[r].godown_id, req[r].raw_material_id, q))
              ELSE /\ req[r].found \in rows
                   /\ godown_stock = [before EXCEPT ![req[r].found].quantity = @ + q]

\* C5 witness: an add has raised an existing row that stands next to a row of
\* another pair.
C5_Witness ==
  \E r \in Slots :
    /\ StockOp(r, "add") /\ Answered(r) /\ req[r].alone
    /\ req[r].found # 0 /\ req[r].found <= Len(req[r].snap.stock)
    /\ Len(godown_stock) >= 2
    /\ godown_stock[req[r].found].quantity = req[r].read_quantity + req[r].quantity

\* C6 (as claimed): in every reachable state every godown_stock quantity is
\* at least 0.
C6_QuantityNonNegative ==
  \A i \in 1..Len(godown_stock) : godown_stock[i].quantity >= 0

\* Request r is a transfer that names both godowns, with a positive quantity.
TransferOf(r) ==
  /\ req[r].route = "movements" /\ req[r].op = "transfer"
  /\ req[r].quantity > 0
  /\ ~Falsy(req[r].from_godown_id) /\ ~Falsy(req[r].to_godown_id)

\* What ledger `stock` holds of material m in godown g.
Held(stock, g, m) ==
  SumOver(SelectSeq(stock, LAMBDA row : row.godown_id = g /\ row.raw_material_id = m),
          "quantity")

\* What ledger `stock` holds of material m across the godowns.
TotalOf(stock, m) ==
  SumOver(SelectSeq(stock, LAMBDA row : row.raw_material_id = m), "quantity")

\* C7 (as claimed): a transfer between two different godowns that ran without
\* interference is answered 400 and changes nothing when the source is
\* missing or holds less than q; otherwise the source holds q less, the
\* destination q more (a new row of quantity q if it had none), the
\* material's total is as before, and one stock-out header against the source
\* godown with one detail of quantity q has been recorded.
C7_TransferContract ==
  \A r \in Slots :
    (/\ TransferOf(r) /\ Answered(r) /\ req[r].alone
     /\ req[r].from_godown_id.v # req[r].to_godown_id.v) =>
      LET q == req[r].quantity
          m == req[r].raw_material_id
          from == req[r].from_godown_id.v
          to == req[r].to_godown_id.v
          before == req[r].snap
      IN IF RowsFor(before.stock, from, m) = {} \/ Held(before.stock, from, m) < q
         THEN /\ req[r].status = 400
              /\ godown_stock = before.stock
              /\ Len(raw_material_stockout) = before.stockouts
              /\ Len(raw_material_stockout_details) = before.details
         ELSE /\ req[r].status = 200
              /\ Held(godown_stock, from, m) = Held(before.stock, from, m) - q
              /\ Held(godown_stock, to, m) = Held(before.stock, to, m) + q
              /\ TotalOf(godown_stock, m) = TotalOf(before.stock, m)
              /\ IF RowsFor(before.stock, to, m) = {}
                 THEN /\ Len(godown_stock) = Len(before.stock) + 1
                      /\ godown_stock[Len(godown_stock)] = StockRow(to, m, q)
                 ELSE Len(godown_stock) = Len(before.stock)
              /\ Len(raw_material_stockout) = before.stockouts + 1
              /\ raw_material_stockout[Len(raw_material_stockout)].godown_id = from
              /\ Len(raw_material_stockout_details) = before.details + 1
              /\ raw_material_stockout_details[Len(raw_material_stockout_details)] =
                   [stockout_id |-> Len(raw_material_stockout),
                    raw_material_id |-> m, raw_material_quantity |-> q]

\* C8 (as claimed): a transfer whose source and destination are the same
\* godown, however the two ids are written in the body, is answered 400,
\* changes no godown_stock row and records no movement.
C8_SameGodownRefused ==
  \A r \in Slots :
    (/\ TransferOf(r) /\ Answered(r)
     /\ req[r].from_godown_id.v = req[r].to_godown_id.v) =>
      /\ req[r].status = 400
      /\ req[r].alone =>
           /\ godown_stock = req[r].snap.stock
           /\ Len(raw_material_stockout) = req[r].snap.stockouts
           /\ Len(raw_material_stockout_details) = req[r].snap.details

\* C9: every transfer that reaches its decrement passed the availability
\* check on the value it read, and the decrement takes q off every source row
\* as the row stands by then, whatever was read -- so two transfers that both
\* read before either writes both decrement.
C9_DecrementIgnoresCheck ==
  [][\A r \in Slots :
       (req[r].pc = "t_dec" /\ req'[r].pc = "t_dest") =>
         /\ req[r].read_quantity >= req[r].quantity
         /\ \A i \in Matching(req[r].from_godown_id.v, req[r].raw_material_id) :
              godown_stock'[i].quantity = godown_stock[i].quantity - req[r].quantity
    ]_vars

\* C9 witness: two transfers out of the same source have both completed, the
\* second answered 200 on a check that read what the source held before
\* either decrement, and the source row is below zero by what they moved out
\* in excess.
C9_Witness ==
  \E r \in Slots :
    /\ TransferOf(r) /\ req[r].pc = "done" /\ req[r].status = 200 /\ ~req[r].alone
    /\ req[r].from_godown_id.v # req[r].to_godown_id.v
    /\ Len(raw_material_stockout_details) = 2
    /\ raw_material_stockout[1].godown_id = req[r].from_godown_id.v
    /\ raw_material_stockout[2].godown_id = req[r].from_godown_id.v
    /\ \E i \in Matching(req[r].from_godown_id.v, req[r].raw_material_id) :
         /\ godown_stock[i].quantity < 0
         /\ godown_stock[i].quantity =
              req[r].read_quantity
              - raw_material_stockout_details[1].raw_material_quantity
              - raw_material_stockout_details[2].raw_material_quantity

\* C10: a transfer that stops between its two writes (at the destination
\* SELECT or at the destination write) is answered 500, and the ledger stays
\* as the decrement left it: the source q lower than at arrival, every other
\* row as at arrival, no destination row added, no movement recorded.
C10_TransferNotAtomic ==
  \A r \in Slots :
    (/\ TransferOf(r) /\ req[r].pc = "done" /\ req[r].at \in {"t_dest", "t_add"}
     /\ req[r].from_godown_id.v # req[r].to_godown_id.v) =>
      /\ req[r].status = 500
      /\ req[r].alone =>
           LET before == req[r].snap
               src == RowsFor(before.stock, req[r].from_godown_id.v,
                              req[r].raw_material_id)
           IN /\ Len(godown_stock) = Len(before.stock)
              /\ \A i \in 1..Len(before.stock) :
                   godown_stock[i] =
                     IF i \in src
                     THEN [before.stock[i] EXCEPT !.quantity = @ - req[r].quantity]
                     ELSE before.stock[i]
              /\ Len(raw_material_stockout) = before.stockouts
              /\ Len(raw_material_stockout_details) = before.details

\* C10 witness: a transfer answered 500 at the destination write, alone, with
\* the material's total q lower than when it arrived.
C10_Witness ==
  \E r \in Slots :
    /\ TransferOf(r) /\ req[r].pc = "done" /\ req[r].at = "t_add"
    /\ req[r].status = 500 /\ req[r].alone
    /\ req[r].from_godown_id.v # req[r].to_godown_id.v
    /\ TotalOf(godown_stock, req[r].raw_material_id) =
         TotalOf(req[r].snap.stock, req[r].raw_material_id) - req[r].quantity
    /\ Held(godown_stock, req[r].to_godown_id.v, req[r].raw_material_id) =
         Held(req[r].snap.stock, req[r].to_godown_id.v, req[r].raw_material_id)

\* C11 (as claimed): in every reachable state godown_stock holds at most one
\* row per (godown_id, raw_material_id) pair.
C11_OneRowPerPair ==
  \A i, j \in 1..Len(godown_stock) :
    (/\ godown_stock[i].godown_id = godown_stock[j].godown_id
     /\ godown_stock[i].raw_material_id = godown_stock[j].raw_material_id) => i = j

\* C12: the UPDATE of POST /api/stock stores the newQuantity computed from the
\* value the request read, whatever the row holds by then; for an add that is
\* (value read) + q -- so of two adds that read the same old quantity only
\* the later write shows.
C12_WriteStoresComputedValue ==
  [][\A r \in Slots :
       (req[r].pc = "write" /\ req'[r].pc = "respond" /\ req[r].found # 0) =>
         /\ godown_stock'[req[r].found].quantity = req[r].new_quantity
         /\ req[r].op = "add" =>
              req[r].new_quantity = req[r].read_quantity + req[r].quantity
    ]_vars

\* C12 witness: two adds on the same existing row have both read the same old
\* quantity and have both written; the row holds old + q of one of them, not
\* old + q1 + q2.
C12_Witness ==
  /\ \A r \in Slots : StockOp(r, "add") /\ req[r].pc = "respond"
  /\ req[1].found = req[2].found
  /\ req[1].read_quantity = req[2].read_quantity
  /\ req[1].read_quantity > 0
  /\ godown_stock[req[1].found].quantity \in
       {req[1].read_quantity + req[1].quantity, req[2].read_quantity + req[2].quantity}
  /\ godown_stock[req[1].found].quantity #
       req[1].read_quantity + req[1].quantity + req[2].quantity

(***************************************************************************)
(* Claims about the e-invoice routes (checked under SpecEInvoice)          *)
(***************************************************************************)

\* The request in slot r was taken by this step.
Taken(r) == ereq[r].pc = "idle" /\ ereq'[r].pc # "idle"

\* An authorised request for an invoice on file was taken in slot r.
TakenFor(r, route) ==
  /\ Taken(r)
  /\ ereq'[r].route = route
  /\ AuthStatus(ereq'[r].token) = 0
  /\ InvoiceExists(ereq'[r].id)

\* The transitions of tax_invoice.status the lifecycle names.
Lifecycle ==
  {<<"draft", "generated">>, <<"generated", "cancelled">>, <<"draft", "error">>}

\* C13: every change of an invoice's status made by a generate, cancel or PUT
\* request is draft -> generated, generated -> cancelled or draft -> error.
C13_StatusLifecycle ==
  [][\A i \in 1..Len(tax_invoice) :
       tax_invoice'[i].status # tax_invoice[i].status =>
         <<tax_invoice[i].status, tax_invoice'[i].status>> \in Lifecycle
    ]_vars

\* C14: a generate request whose API call failed has left its log row
\* 'failed' with the error message, the invoice 'error' with error_message
\* filled, answers 400 with the detail the provider gave, and has sent at most
\* one submit call.
C14_FailedGeneration ==
  \A r \in Slots :
    (/\ ereq[r].pc = "done" /\ ereq[r].route = "generate"
     /\ ereq[r].outcome \notin {"", "ok"}) =>
      /\ e_invoice_transaction_log[ereq[r].log_id].status = "failed"
      /\ e_invoice_transaction_log[ereq[r].log_id].error_message # ""
      /\ tax_invoice[ereq[r].id].status = "error"
      /\ tax_invoice[ereq[r].id].error_message # ""
      /\ ereq[r].status = 400
      /\ ereq[r].submits <= 1
      /\ ProviderDetail(ereq[r].outcome) # "" =>
           ereq[r].details = ProviderDetail(ereq[r].outcome)

\* C15: an authorised generate request for an invoice a failed submission left
\* in status 'error' is accepted: it goes on to submit again.
C15_RetriggerAccepted ==
  [][\A r \in Slots :
       (/\ TakenFor(r, "generate")
        /\ tax_invoice[ereq'[r].id].status = "error"
        /\ tax_invoice[ereq'[r].id].error_message # "") =>
         ereq'[r].pc = "calling"
    ]_vars

\* C16: an authorised cancel request for an invoice with an empty irn_no or
\* with status 'cancelled' is answered 400, makes no cancel call, writes no
\* log row and leaves the invoice as it was.
C16_CancelRefused ==
  [][\A r \in Slots :
       (/\ TakenFor(r, "cancel")
        /\ \/ tax_invoice[ereq'[r].id].irn_no = ""
           \/ tax_invoice[ereq'[r].id].status = "cancelled") =>
         /\ ereq'[r].pc = "done"
         /\ ereq'[r].status = 400
         /\ tax_invoice[ereq'[r].id].irn_no = "" =>
              ereq'[r].error = "Cannot cancel invoice without IRN"
         /\ ereq'[r].submits = 0
         /\ ereq'[r].log_id = 0
         /\ e_invoice_transaction_log' = e_invoice_transaction_log
         /\ tax_invoice' = tax_invoice
    ]_vars

\* C16 witness: a cancel request was refused because the invoice, cancelled
\* by an earlier request, still carries its IRN.
C16_Witness ==
  \E r \in Slots :
    /\ ereq[r].pc = "done" /\ ereq[r].route = "cancel"
    /\ ereq[r].status = 400 /\ ereq[r].log_id = 0
    /\ tax_invoice[ereq[r].id].status = "cancelled"
    /\ tax_invoice[ereq[r].id].irn_no # ""

\* C17: the log only grows; a request that passes validation appends exactly
\* one 'pending' row of its own; a row changes only from 'pending' to
\* 'success' or 'failed', and only in the step in which the request that
\* inserted it finishes.
C17_LogAppendOnly ==
  [][/\ Len(e_invoice_transaction_log') >= Len(e_invoice_transaction_log)
     /\ Len(e_invoice_transaction_log') <= Len(e_invoice_transaction_log) + 1
     /\ \A i \in 1..Len(e_invoice_transaction_log) :
          \/ e_invoice_transaction_log'[i] = e_invoice_transaction_log[i]
          \/ /\ e_invoice_transaction_log[i].status = "pending"
             /\ e_invoice_transaction_log'[i].status \in {"success", "failed"}
             /\ e_invoice_transaction_log'[i].tax_invoice_id =
                  e_invoice_transaction_log[i].tax_invoice_id
             /\ e_invoice_transaction_log'[i].by = e_invoice_transaction_log[i].by
             /\ \E r \in Slots :
                  /\ ereq[r].pc = "calling" /\ ereq'[r].pc = "done"
                  /\ ereq[r].n = e_invoice_transaction_log[i].by
                  /\ ereq[r].log_id = i
     /\ \A r \in Slots :
          (Taken(r) /\ ereq'[r].pc = "calling") =>
            /\ Len(e_invoice_transaction_log') = Len(e_invoice_transaction_log) + 1
            /\ ereq'[r].log_id = Len(e_invoice_transaction_log')
            /\ e_invoice_transaction_log'[ereq'[r].log_id].status = "pending"
            /\ e_invoice_transaction_log'[ereq'[r].log_id].by = ereq'[r].n
            /\ e_invoice_transaction_log'[ereq'[r].log_id].tax_invoice_id = ereq'[r].id
     /\ Len(e_invoice_transaction_log') > Len(e_invoice_transaction_log) =>
          \E r \in Slots : Taken(r) /\ ereq'[r].pc = "calling"
    ]_vars

\* C17 witness: two requests inserted a row each for the same invoice; one
\* has finished and its row is terminal, the other's row is still 'pending'.
C17_Witness ==
  \E i, j \in 1..Len(e_invoice_transaction_log) :
    /\ i # j
    /\ e_invoice_transaction_log[i].tax_invoice_id =
         e_invoice_transaction_log[j].tax_invoice_id
    /\ e_invoice_transaction_log[i].by # e_invoice_transaction_log[j].by
    /\ e_invoice_transaction_log[i].status \in {"success", "failed"}
    /\ e_invoice_transaction_log[j].status = "pending"
    /\ \E r \in Slots : ereq[r].pc = "calling" /\ ereq[r].log_id = j

\* C18: in the threshold revision an authorised generate request for a draft
\* or generated invoice below 50,000 is answered 400 with no log row written,
\* no API call made and the invoice unchanged; one of 50,000 or more goes on
\* to the log and the API.
C18_Threshold ==
  [][\A r \in Slots :
       (/\ TakenFor(r, "generate")
        /\ einv_revision = "threshold"
        /\ tax_invoice[ereq'[r].id].status \in {"draft", "generated"}) =>
         IF tax_invoice[ereq'[r].id].grand_total_amt < 50000 * 200
         THEN /\ ereq'[r].pc = "done"
              /\ ereq'[r].status = 400
              /\ ereq'[r].submits = 0
              /\ ereq'[r].log_id = 0
              /\ e_invoice_transaction_log' = e_invoice_transaction_log
              /\ tax_invoice' = tax_invoice
         ELSE /\ ereq'[r].pc = "calling"
              /\ Len(e_invoice_transaction_log') = Len(e_invoice_transaction_log) + 1
    ]_vars

\* C18 witness: the invoice of 49,999 was refused with 400 after the invoice
\* of exactly 50,000 had been generated.
C18_Witness ==
  /\ einv_revision = "threshold"
  /\ \E r \in Slots :
       /\ ereq[r].pc = "done" /\ ereq[r].route = "generate"
       /\ ereq[r].status = 400 /\ ereq[r].log_id = 0
       /\ tax_invoice[ereq[r].id].grand_total_amt = (EInvoiceThreshold - 1) * 200
       /\ tax_invoice[ereq[r].id].status = "draft"
  /\ \E i \in 1..Len(tax_invoice) :
       /\ tax_invoice[i].grand_total_amt = EInvoiceThreshold * 200
       /\ tax_invoice[i].status = "generated"

\* C20: a request without a token or with an unverifiable or expired one is
\* answered 401, one with a valid token of a user without the permission 403,
\* and neither changes a row or the cache.
C20_AuthStatuses ==
  [][\A r \in Slots :
       (Taken(r) /\ ereq'[r].token # "ok") =>
         /\ ereq'[r].pc = "done"
         /\ ereq'[r].status =
              (IF ereq'[r].token \in {"none", "garbage", "expired"} THEN 401 ELSE 403)
         /\ tax_invoice' = tax_invoice
         /\ tax_invoice_details' = tax_invoice_details
         /\ e_invoice_transaction_log' = e_invoice_transaction_log
         /\ invoices_cache' = invoices_cache
    ]_vars

(***************************************************************************)
(* Claims about the GST API client (checked under SpecGstClient)           *)
(***************************************************************************)

\* A generateEInvoice or cancelEInvoice call was made in this step.
Called == gst_call' # gst_call /\ gst_call'.method # ""

\* C19: a call on a client sends POST /auth exactly when the client holds no
\* token or the time has reached the expiry stored with it; the expiry stored
\* by a successful authentication is its time + expires_in seconds - 60
\* seconds; a call that finds a token before that expiry sends no POST /auth
\* and uses that token; and the submit or cancel POST is sent only with a
\* token a successful authentication on this client returned.
C19_TokenReuse ==
  [][Called =>
       /\ (gst_issued' # gst_issued) <=> (accessToken = 0 \/ gst_now >= tokenExpiry)
       /\ gst_issued' \in {gst_issued, gst_issued + 1}
       /\ gst_call'.auth = "ok" =>
            /\ tokenExpiry' = gst_now + gst_call'.expires_in * 1000 - 60000
            /\ accessToken' # 0 /\ accessToken' # accessToken
       /\ (accessToken # 0 /\ gst_now < tokenExpiry) =>
            /\ gst_call'.sent
            /\ gst_call'.bearer = accessToken
            /\ accessToken' = accessToken /\ tokenExpiry' = tokenExpiry
       /\ gst_call'.sent => (gst_call'.bearer # 0 /\ gst_call'.bearer = accessToken')
       /\ gst_call'.auth = "failed" =>
            (~gst_call'.sent /\ accessToken' = accessToken /\ tokenExpiry' = tokenExpiry)
    ]_vars

\* C19 witness: a call made 60 seconds after the authentication that
\* returned expires_in = 150 was sent with the cached token, 30 seconds
\* before the stored expiry.
C19_Witness ==
  /\ gst_call.auth = "cached" /\ gst_call.sent
  /\ gst_call.bearer = accessToken
  /\ gst_issued = 1
  /\ tokenExpiry = StartTime + 150 * 1000 - 60000
  /\ gst_now = tokenExpiry - TickMs

(***************************************************************************)
(* Further claims about invoice creation (checked under SpecInvoice)       *)
(***************************************************************************)

\* A body without customer_id, without invoice_date, without items or with an
\* empty items list, or whose customer_id matches no master_customer row.
InvalidInvoiceRequest(b) ==
  \/ MissingRequiredFields(b.customer_id, b.invoice_date, b.items)
  \/ b.customer_id \notin CustomerIds

\* POST /api/invoices with body b, as the deployed revision handles it.
PostInvoice(b) ==
  \/ PostInvoiceIgst(b.customer_id, b.invoice_date, b.place_of_supply, b.items)
  \/ PostInvoiceSequence(b.customer_id, b.invoice_date, b.place_of_supply, b.items)
  \/ PostInvoiceLegacy(b.customer_id, b.invoice_date, b.place_of_supply, b.items)

\* C21: in every revision a creation request with a missing customer_id,
\* invoice_date or items, an empty items list or an unknown customer_id is
\* answered 400 or 404, and no header, no detail row and no invoice number is
\* written.  (Read in the claim's favour: the 500 that answers a failed
\* database statement is not held against it.)
C21_InvalidRequestRefused ==
  [][\A b \in InvoiceRequestFields :
       (InvalidInvoiceRequest(b) /\ PostInvoice(b)) =>
         /\ resp'.status \in {400, 404, 500}
         /\ UNCHANGED <<tax_invoice, tax_invoice_details, e_invoice_sequence>>
    ]_vars

\* The revisions whose handler calls Database.transaction.
TransactionRevisions == {"igst", "legacy"}

\* C22: in the revisions that call Database.transaction, a request that
\* leaves a header behind leaves it with one detail row for each of its items.
C22_HeaderWithAllDetails ==
  [][\A b \in InvoiceRequestFields :
       (/\ revision \in TransactionRevisions
        /\ PostInvoice(b)
        /\ tax_invoice' # tax_invoice) =>
         /\ Len(tax_invoice') = Len(tax_invoice) + 1
         /\ Len(SelectSeq(tax_invoice_details',
                          LAMBDA d : d.tax_invoice_id = Len(tax_invoice'))) = Len(b.items)
    ]_vars

(***************************************************************************)
(* Further claims about the e-invoice routes (checked under SpecEInvoice)  *)
(***************************************************************************)

\* C23 (its part on tax_invoice): a request that changes a tax_invoice row
\* has deleted the 'invoices:*' keys by the time it responds -- generate on
\* its success and on its failure path, cancel, PUT.
C23_InvoiceWriteClearsCache ==
  [][tax_invoice' # tax_invoice => ~invoices_cache']_vars

\* C25: an authorised generate request for an invoice that holds an IRN, or
\* that another generate request in flight is submitting, is answered without
\* a submission of its own; the one for an invoice with an IRN is answered
\* 404.
C25_SubmittedOnce ==
  [][\A r \in Slots :
       TakenFor(r, "generate") =>
         /\ tax_invoice[ereq'[r].id].irn_no # "" =>
              (ereq'[r].pc = "done" /\ ereq'[r].status = 404)
         /\ (\E s \in Slots : /\ s # r /\ ereq[s].pc = "calling"
                               /\ ereq[s].route = "generate"
                               /\ ereq[s].id = ereq'[r].id) =>
              ereq'[r].pc # "calling"
    ]_vars

\* C26: a generate request whose submission the provider accepted ends with
\* the invoice 'generated' holding the IRN and with its log row 'success',
\* not 'failed', and has not set the invoice to 'error'.
C26_AcceptedStaysGenerated ==
  [][\A r \in Slots :
       (/\ ereq[r].pc = "calling" /\ ereq[r].route = "generate"
        /\ ereq'[r].pc = "done" /\ ereq'[r].outcome = "ok") =>
         /\ tax_invoice'[ereq[r].id].status = "generated"
         /\ tax_invoice'[ereq[r].id].irn_no # ""
         /\ e_invoice_transaction_log'[ereq[r].log_id].status = "success"
    ]_vars

(***************************************************************************)
(* Claims about invoice numbers (checked under SpecInvoiceNumbers)         *)
(***************************************************************************)

\* C27: no two invoices carry the same invoice_no, whatever the interleaving
\* of the requests that created them, in the e_invoice_sequence revision and
\* in the last-invoice-plus-one revision.
C27_DistinctInvoiceNumbers ==
  \A i, j \in 1..Len(tax_invoice) :
    tax_invoice[i].invoice_no = tax_invoice[j].invoice_no => i = j

(***************************************************************************)
(* Claims about the stock cache (checked under SpecStockCache)             *)
(***************************************************************************)

\* Every write made so far belongs to a request that has also deleted the
\* 'stock:*' keys.
WritesCompleted == \A r \in Slots : req[r].pc # "respond"

\* C24: a GET /api/stock that starts when every write made so far has been
\* followed by its cache deletion answers with the listing as the table holds
\* it -- also when the cache was filled by a GET that was in flight during
\* the write.
C24_GetReflectsCompletedWrites ==
  [][\A g \in GetSlots :
       (/\ greq[g].pc = "idle" /\ greq'[g].pc = "done"
        /\ WritesCompleted) =>
         greq'[g].data = Listing(godown_stock)
    ]_vars


(***************************************************************************)
(* Claims about the e-invoice payload (checked under SpecPayload)          *)
(***************************************************************************)

\* C28: the payload buildEInvoicePayload returns for the data object of a
\* stored invoice carries, for every item, tax amounts IgstAmt, CgstAmt and
\* SgstAmt that add up to the tax stored on the invoice line (cgst_amt +
\* sgst_amt + igst_amount), in the IGST field exactly when the line was taxed
\* as interstate at creation, and document totals CgstVal, SgstVal and
\* IgstVal equal to the header's tax totals.
C28_PayloadTaxesMatchStored ==
  einvoice_payload.id # 0 =>
    LET invoice == tax_invoice[einvoice_payload.id]
        rows == InvoiceItems(einvoice_payload.id)
        body == einvoice_payload.body
    IN /\ Len(body.ItemList) = Len(rows)
       /\ \A i \in 1..Len(rows) :
            LET item == body.ItemList[i]
            IN /\ item.IgstAmt.t = "number"
               /\ item.CgstAmt.t = "number"
               /\ item.SgstAmt.t = "number"
               /\ item.IgstAmt.v + item.CgstAmt.v + item.SgstAmt.v =
                    2 * (rows[i].cgst_amt + rows[i].sgst_amt + rows[i].igst_amount)
               /\ rows[i].igst_amount > 0 => item.CgstAmt.v + item.SgstAmt.v = 0
               /\ rows[i].cgst_amt + rows[i].sgst_amt > 0 => item.IgstAmt.v = 0
       /\ body.ValDtls.CgstVal = ColumnNumber(invoice.grand_total_cgst_amt)
       /\ body.ValDtls.SgstVal = ColumnNumber(invoice.grand_total_sgst_amt)
       /\ body.ValDtls.IgstVal = ColumnNumber(invoice.grand_total_igst_amt)

(***************************************************************************)
(* Claims about submitted invoices (checked under SpecInvoiceEdit)         *)
(***************************************************************************)

\* C29: an authorised PUT or DELETE /api/invoices request for an invoice that
\* has been submitted (irn_no not empty, status 'generated') is rejected with
\* HTTP 400 (or fails with 500 before any statement has run), and leaves the
\* invoice's header and its detail rows as they were.
C29_SubmittedInvoiceKept ==
  [][\A r \in Slots, id \in RequestInvoiceIds :
       (/\ TakenFor(r, "put") \/ TakenFor(r, "delete")
        /\ ereq'[r].id = id
        /\ tax_invoice[id].irn_no # ""
        /\ tax_invoice[id].status = "generated")
       => /\ ereq'[r].pc = "done"
          /\ ereq'[r].status \in {400, 500}
          /\ id \notin deleted_invoices'
          /\ tax_invoice'[id] = tax_invoice[id]
          /\ SelectSeq(tax_invoice_details', LAMBDA d : d.tax_invoice_id = id)
               = InvoiceItems(id)]_vars

(***************************************************************************)
(* Claims about permissions (checked under SpecPermission)                 *)
(***************************************************************************)

\* C30: hasPermission of the role-based revision allows everything to role
\* 'admin', exactly read and write on SALES, INVENTORY and REPORTS to role
\* 'manager', and only read on SALES to any other role; so no user who is
\* not an admin is allowed a delete or anything on MASTERS, and the
\* departments granted to the user (its permissions) make no difference.
C30_RoleDecides ==
  perm_check.module # "" =>
    /\ perm_user.role = "admin" => perm_check.allowed
    /\ perm_user.role = "manager" =>
         (perm_check.allowed <=>
            /\ perm_check.action \in {"read", "write"}
            /\ perm_check.module \in {"SALES", "INVENTORY", "REPORTS"})
    /\ perm_user.role \notin {"admin", "manager"} =>
         (perm_check.allowed <=>
            perm_check.action = "read" /\ perm_check.module = "SALES")
    /\ (perm_user.role # "admin" /\ perm_check.allowed) =>
         perm_check.action # "delete" /\ perm_check.module # "MASTERS"

\* A manager to whom the MASTERS department is granted asks to read MASTERS
\* and is refused.
C30_Witness ==
  /\ perm_user.role = "manager"
  /\ "MASTERS" \in perm_user.permissions
  /\ perm_check.module = "MASTERS"
  /\ perm_check.action = "read"
  /\ ~perm_check.allowed

====
